---- MODULE Spec2Model ----
(***************************************************************************)
(* Model of the concurrent probing engine of cloud_enum (package           *)
(* enum_tools): the global HTTP rate limiter (rateLimitCheck), the batch   *)
(* HTTP prober (GetURLBatch) and the batch DNS resolver (FastDNSLookup),   *)
(* with the name validator (IsValidDomain) and the single-name resolver    *)
(* (dnsLookup) they use.                                                   *)
(*                                                                         *)
(* A batch call is a set of goroutines: the workers, the feeder, the       *)
(* closer and the calling goroutine that consumes results.  Every action   *)
(* below is one step of one goroutine between two operations on shared     *)
(* memory (a channel operation or an atomic load/add/store).               *)
(***************************************************************************)
EXTENDS Integers, Sequences, FiniteSets

(***************************************************************************)
(* Bounds of the model.                                                    *)
(***************************************************************************)
MaxNames == 3
MaxThreads == 2
MaxThreshold == 2
MaxLabels == 4
MaxResults == 3

(***************************************************************************)
(* Program constants.                                                      *)
(***************************************************************************)
MaxDomainLen == 253
MaxLabelLen == 63
DnsThreadFactor == 10
DnsMaxConcurrency == 500
ChanFactor == 2
DnsTries == 2

(***************************************************************************)
(* Strings are sequences of one-character strings.                         *)
(***************************************************************************)
EmptyStr == << >>

BreakoutSentinel ==
    << "-", "#", "B", "R", "E", "A", "K", "O", "U", "T", "_",
       "D", "N", "S", "_", "E", "R", "R", "O", "R", "#", "-" >>

Rep(c, n) == [i \in 1..n |-> c]

\* strings.Split(s, "."): the pieces of s between dots; Split("") is <<"">>.
RECURSIVE Split(_)
Split(s) ==
    IF \A i \in 1..Len(s) : s[i] # "."
    THEN << s >>
    ELSE LET p == CHOOSE i \in 1..Len(s) :
                      s[i] = "." /\ \A j \in 1..(i - 1) : s[j] # "."
         IN  << SubSeq(s, 1, p - 1) >> \o Split(SubSeq(s, p + 1, Len(s)))

\* Variant: only the total length is checked.
IsValidDomain_NoLabelCheck(domain) == Len(domain) <= MaxDomainLen

IsValidDomain(domain) ==
    IF Len(domain) > MaxDomainLen
    THEN FALSE
    ELSE LET labels == Split(domain)
         IN  \A k \in 1..Len(labels) :
                 ~(Len(labels[k]) < 1 \/ Len(labels[k]) > MaxLabelLen)

(***************************************************************************)
(* The candidate names the batches are run on.  Candidates are built by    *)
(* the callers as <name>.<suffix>, so none of them is the sentinel string  *)
(* (which has no dot).                                                     *)
(***************************************************************************)
NamePool ==
    << << "a", ".", "b" >>,                       \* valid
       << "a", ".", ".", "b" >>,                  \* empty label
       << "c", ".", "b" >>,                       \* valid
       Rep("a", MaxLabelLen + 1) \o << ".", "b" >>  \* label too long
    >>

BatchNames == {1, 2}

Name(id) == NamePool[id]

\* Variant: nothing is filtered out.
FilterValid_KeepAll(list) == list

\* The sub-sequence of the entries of list that pass IsValidDomain.
RECURSIVE FilterValid(_)
FilterValid(list) ==
    IF list = << >>
    THEN << >>
    ELSE IF IsValidDomain(Name(Head(list)))
         THEN << Head(list) >> \o FilterValid(Tail(list))
         ELSE FilterValid(Tail(list))

(***************************************************************************)
(* State.                                                                  *)
(***************************************************************************)
VARIABLES
    \* inputs of the batch call and process configuration
    engine,        \* "http": GetURLBatch, "dns": FastDNSLookup, or the name
                   \* of a function applied on its own
    urlList,       \* the list given to the call (name ids)
    threads,       \* the caller's thread count
    hasCallback,   \* FastDNSLookup: callback != nil
    resolverTable, \* answers of a deterministic resolver per name, or << >>
    \* rate-limiter globals
    rlThreshold, rlCount, rlPaused,
    \* locals of the batch call shared by its goroutines
    phase,         \* "init", "running", "returned", "exited" (os.Exit)
    valid,         \* the filtered list
    total,
    nworkers,      \* number of worker goroutines started
    jobs, jobsClosed,
    resultsCh, resultsClosed,
    done, aborted,
    validNames,    \* FastDNSLookup's result list
    \* position of each goroutine
    wpc, wjob,     \* workers: position, job taken (index into valid)
    wres,          \* workers: result about to be sent
    fpc, fidx,     \* feeder
    clpc,          \* closer
    tkpc,          \* progress ticker goroutine
    tickerStopped, \* ticker.Stop() has run
    cpc, cres,     \* consuming loop (the caller's goroutine)
    \* history of the run (observation only)
    inflight,      \* requests issued and not yet completed
    issued,        \* issued[i]: requests issued for valid[i]
    httpOutcome,   \* httpOutcome[i]: "none", "err" or "ok"
    classified,    \* classified[i]: callback invocations on valid[i]'s result
    cbTrue,        \* the classifier has returned true
    lateIssued,    \* a request was issued after the classifier returned true
    postAbort,     \* postAbort[w]: requests w issued after aborted was stored
    pauses,        \* rate-limit pauses started
    dnsOutcome,    \* dnsOutcome[i]: outcomes dnsLookup produced for valid[i]
    received,      \* received[i]: outcomes of valid[i] the consumer received
    cbCalls,       \* cbCalls[i]: DNS callback invocations for valid[i]
    \* a function applied on its own: its input and its result
    pIn, pOut,
    \* the process across its batch calls
    batchNo,       \* number of the current batch call
    issuedBefore   \* requests issued by the earlier batch calls

cfgVars == << engine, urlList, threads, hasCallback, resolverTable, rlThreshold >>
rlVars == << rlCount, rlPaused, pauses >>
chanVars == << jobs, jobsClosed, resultsCh, resultsClosed >>
callVars == << phase, valid, total, nworkers >>
workerVars == << wpc, wjob, wres >>
feederVars == << fpc, fidx >>
consumerVars == << cpc, cres >>
httpHist == << inflight, issued, httpOutcome, classified, cbTrue, lateIssued, postAbort >>
dnsHist == << dnsOutcome, received, cbCalls >>
tickerVars == << tkpc, tickerStopped >>
pureVars == << pIn, pOut >>
procVars == << batchNo, issuedBefore >>

vars == << cfgVars, rlVars, chanVars, callVars, workerVars, feederVars, clpc,
           consumerVars, done, aborted, validNames, httpHist, dnsHist,
           tickerVars, pureVars, procVars >>

Workers == 1..nworkers
Targets == 1..Len(valid)

NameLists == UNION { [1..n -> BatchNames] : n \in 0..MaxNames }

InitCall ==
    /\ batchNo = 1
    /\ issuedBefore = 0
    /\ rlCount = 0
    /\ rlPaused = 0
    /\ pauses = 0
    /\ phase = "init"
    /\ valid = << >>
    /\ total = 0
    /\ nworkers = 0
    /\ jobs = << >>
    /\ jobsClosed = FALSE
    /\ resultsCh = << >>
    /\ resultsClosed = FALSE
    /\ done = 0
    /\ aborted = 0
    /\ validNames = << >>
    /\ wpc = << >>
    /\ wjob = << >>
    /\ wres = << >>
    /\ fpc = "none"
    /\ fidx = 1
    /\ clpc = "none"
    /\ tkpc = "none"
    /\ tickerStopped = FALSE
    /\ cpc = "none"
    /\ cres = << >>
    /\ inflight = 0
    /\ issued = << >>
    /\ httpOutcome = << >>
    /\ classified = << >>
    /\ cbTrue = FALSE
    /\ lateIssued = FALSE
    /\ postAbort = << >>
    /\ dnsOutcome = << >>
    /\ received = << >>
    /\ cbCalls = << >>

\* No function is being applied on its own.
NoPure ==
    /\ pIn = << >>
    /\ pOut = << >>

\* GetURLBatch is always given a classifier.
InitHttp ==
    /\ engine = "http"
    /\ urlList \in NameLists
    /\ threads \in 0..MaxThreads
    /\ hasCallback = TRUE
    /\ rlThreshold \in 0..MaxThreshold
    /\ resolverTable = << >>
    /\ InitCall
    /\ NoPure

\* FastDNSLookup runs in a process whose rate limiter is configured.  Ten
\* times any thread count of 1 or more exceeds every total within MaxNames,
\* so the thread counts 1..MaxThreads all start the same pool: the call is
\* run with 0 and with MaxThreads.
InitDns ==
    /\ engine = "dns"
    /\ urlList \in NameLists
    /\ threads \in {0, MaxThreads}
    /\ hasCallback \in BOOLEAN
    /\ rlThreshold = MaxThreshold
    /\ resolverTable = << >>
    /\ InitCall
    /\ NoPure

\* FastDNSLookup against a deterministic resolver: the answers to the
\* attempts of a lookup depend on the name alone.  Lists are drawn from two
\* names that pass the filter.
DetNames == {1, 3}
DetAnswers == { << "ok", "ok" >>, << "timeout", "ok" >>,
                << "notfound", "ok" >>, << "timeout", "timeout" >> }
InitDnsDet ==
    /\ engine = "dns"
    /\ urlList \in UNION { [1..n -> DetNames] : n \in 1..MaxNames }
    /\ threads \in {0, MaxThreads}
    /\ hasCallback = TRUE
    /\ rlThreshold = MaxThreshold
    /\ resolverTable \in [DetNames -> DetAnswers]
    /\ InitCall
    /\ NoPure

Init == InitHttp \/ InitDns

\* Capacity of the jobs and results channels of a pool of n workers.
ChanCap(n) == n * ChanFactor

(***************************************************************************)
(* GetURLBatch: filtering and start of the goroutines.                     *)
(***************************************************************************)
StartGoroutines(v, n) ==
    /\ phase' = "running"
    /\ valid' = v
    /\ total' = Len(v)
    /\ nworkers' = n
    /\ wpc' = [w \in 1..n |-> "recv"]
    /\ wjob' = [w \in 1..n |-> 0]
    /\ wres' = [w \in 1..n |-> EmptyStr]
    /\ fpc' = "loop"
    /\ clpc' = "wait"
    /\ tkpc' = "range"
    /\ cpc' = "range"
    /\ issued' = [i \in 1..Len(v) |-> 0]
    /\ httpOutcome' = [i \in 1..Len(v) |-> "none"]
    /\ classified' = [i \in 1..Len(v) |-> 0]
    /\ postAbort' = [w \in 1..n |-> 0]
    /\ dnsOutcome' = [i \in 1..Len(v) |-> << >>]
    /\ received' = [i \in 1..Len(v) |-> 0]
    /\ cbCalls' = [i \in 1..Len(v) |-> 0]

ReturnEarly(v) ==
    /\ phase' = "returned"
    /\ valid' = v
    /\ total' = Len(v)
    /\ UNCHANGED << nworkers, wpc, wjob, wres, fpc, clpc, tkpc, cpc, issued, httpOutcome,
                    classified, postAbort, dnsOutcome, received, cbCalls >>

GetURLBatchStart ==
    /\ engine = "http"
    /\ phase = "init"
    /\ IF Len(urlList) = 0
       THEN ReturnEarly(<< >>)
       ELSE LET v == FilterValid(urlList)
            IN  IF Len(v) = 0 THEN ReturnEarly(v) ELSE StartGoroutines(v, threads)
    /\ UNCHANGED << cfgVars, procVars, pureVars, tickerStopped, rlVars,
                    chanVars, fidx, cres, done, aborted, validNames, inflight,
                    cbTrue, lateIssued >>

(***************************************************************************)
(* rateLimitCheck, as executed by worker w.                                *)
(***************************************************************************)
\* Variant: the threshold is not looked at on entry.
RateLimitEntry_NoCheck == "rl_wait"

\* Where a caller of rateLimitCheck goes first: straight back to the caller
\* when no threshold is configured, else to the wait on rlPaused.
RateLimitEntry == IF rlThreshold <= 0 THEN "get" ELSE "rl_wait"

\* for atomic.LoadInt64(&rlPaused) != 0 { sleep 100ms }: leaves the loop on
\* a load of 0.
RateLimitWait(w) ==
    /\ phase = "running"
    /\ wpc[w] = "rl_wait"
    /\ rlPaused = 0
    /\ wpc' = [wpc EXCEPT ![w] = "rl_add"]
    /\ UNCHANGED << cfgVars, procVars, pureVars, tickerVars, rlVars, chanVars,
                    callVars, wjob, wres, feederVars, clpc, consumerVars, done,
                    aborted, validNames, httpHist, dnsHist >>

\* Variant: the count before the increment is tested against the threshold.
RateLimitAdd_OffByOne(w) ==
    /\ phase = "running"
    /\ wpc[w] = "rl_add"
    /\ rlCount' = rlCount + 1
    /\ wpc' = [wpc EXCEPT ![w] =
                  IF rlCount % rlThreshold = 0 THEN "rl_set" ELSE "get"]
    /\ UNCHANGED << cfgVars, procVars, pureVars, tickerVars, rlPaused, pauses,
                    chanVars, callVars, wjob, wres, feederVars, clpc,
                    consumerVars, done, aborted, validNames, httpHist, dnsHist >>

\* count := atomic.AddInt64(&rlCount, 1); if count%rlThreshold == 0 ...
RateLimitAdd(w) ==
    /\ phase = "running"
    /\ wpc[w] = "rl_add"
    /\ rlCount' = rlCount + 1
    /\ wpc' = [wpc EXCEPT ![w] =
                  IF rlCount' % rlThreshold = 0 THEN "rl_set" ELSE "get"]
    /\ UNCHANGED << cfgVars, procVars, pureVars, tickerVars, rlPaused, pauses,
                    chanVars, callVars, wjob, wres, feederVars, clpc,
                    consumerVars, done, aborted, validNames, httpHist, dnsHist >>

\* atomic.StoreInt64(&rlPaused, 1); time.Sleep(rlSleep) begins.
RateLimitPause(w) ==
    /\ phase = "running"
    /\ wpc[w] = "rl_set"
    /\ rlPaused' = 1
    /\ pauses' = pauses + 1
    /\ wpc' = [wpc EXCEPT ![w] = "rl_sleep"]
    /\ UNCHANGED << cfgVars, procVars, pureVars, tickerVars, rlCount, chanVars,
                    callVars, wjob, wres, feederVars, clpc, consumerVars, done,
                    aborted, validNames, httpHist, dnsHist >>

\* time.Sleep(rlSleep) ends; atomic.StoreInt64(&rlPaused, 0).
RateLimitWake(w) ==
    /\ phase = "running"
    /\ wpc[w] = "rl_sleep"
    /\ rlPaused' = 0
    /\ wpc' = [wpc EXCEPT ![w] = "get"]
    /\ UNCHANGED << cfgVars, procVars, pureVars, tickerVars, rlCount, pauses,
                    chanVars, callVars, wjob, wres, feederVars, clpc,
                    consumerVars, done, aborted, validNames, httpHist, dnsHist >>

(***************************************************************************)
(* GetURLBatch: worker w.                                                  *)
(***************************************************************************)
\* for url := range jobs: a job is received.
HttpWorkerRecv(w) ==
    /\ engine = "http"
    /\ phase = "running"
    /\ wpc[w] = "recv"
    /\ jobs # << >>
    /\ wjob' = [wjob EXCEPT ![w] = Head(jobs)]
    /\ jobs' = Tail(jobs)
    /\ wpc' = [wpc EXCEPT ![w] = "chk"]
    /\ UNCHANGED << cfgVars, procVars, pureVars, tickerVars, rlVars,
                    jobsClosed, resultsCh, resultsClosed, callVars, wres,
                    feederVars, clpc, consumerVars, done, aborted, validNames,
                    httpHist, dnsHist >>

\* for ... range jobs ends on a closed, empty channel; defer workerWg.Done().
WorkerExit(w) ==
    /\ phase = "running"
    /\ wpc[w] = "recv"
    /\ jobs = << >>
    /\ jobsClosed
    /\ wpc' = [wpc EXCEPT ![w] = "exit"]
    /\ UNCHANGED << cfgVars, procVars, pureVars, tickerVars, rlVars, chanVars,
                    callVars, wjob, wres, feederVars, clpc, consumerVars, done,
                    aborted, validNames, httpHist, dnsHist >>

\* Variant: the abort flag is not read.
HttpWorkerCheckAborted_Ignore(w) ==
    /\ engine = "http"
    /\ phase = "running"
    /\ wpc[w] = "chk"
    /\ wpc' = [wpc EXCEPT ![w] = RateLimitEntry]
    /\ UNCHANGED << done, wjob >>
    /\ UNCHANGED << cfgVars, procVars, pureVars, tickerVars, rlVars, chanVars,
                    callVars, wres, feederVars, clpc, consumerVars, aborted,
                    validNames, httpHist, dnsHist >>

\* Variant: a drained job is not counted as done.
HttpWorkerCheckAborted_DrainUncounted(w) ==
    /\ engine = "http"
    /\ phase = "running"
    /\ wpc[w] = "chk"
    /\ IF aborted # 0
       THEN /\ wjob' = [wjob EXCEPT ![w] = 0]
            /\ wpc' = [wpc EXCEPT ![w] = "recv"]
            /\ UNCHANGED done
       ELSE /\ wpc' = [wpc EXCEPT ![w] = RateLimitEntry]
            /\ UNCHANGED << done, wjob >>
    /\ UNCHANGED << cfgVars, procVars, pureVars, tickerVars, rlVars, chanVars,
                    callVars, wres, feederVars, clpc, consumerVars, aborted,
                    validNames, httpHist, dnsHist >>

\* if atomic.LoadInt64(&aborted) != 0 { done++; continue }; rateLimitCheck()
HttpWorkerCheckAborted(w) ==
    /\ engine = "http"
    /\ phase = "running"
    /\ wpc[w] = "chk"
    /\ IF aborted # 0
       THEN /\ done' = done + 1
            /\ wjob' = [wjob EXCEPT ![w] = 0]
            /\ wpc' = [wpc EXCEPT ![w] = "recv"]
       ELSE /\ wpc' = [wpc EXCEPT ![w] = RateLimitEntry]
            /\ UNCHANGED << done, wjob >>
    /\ UNCHANGED << cfgVars, procVars, pureVars, tickerVars, rlVars, chanVars,
                    callVars, wres, feederVars, clpc, consumerVars, aborted,
                    validNames, httpHist, dnsHist >>

\* What issuing a request for job j by worker w records.
IssueRecorded(w, j) ==
    /\ inflight' = inflight + 1
    /\ issued' = [issued EXCEPT ![j] = @ + 1]
    /\ lateIssued' = (lateIssued \/ cbTrue)
    /\ postAbort' = [postAbort EXCEPT ![w] = IF aborted # 0 THEN @ + 1 ELSE @]

\* Variant: the worker does not wait for the response before the next job.
HttpWorkerGet_NoWait(w) ==
    /\ engine = "http"
    /\ phase = "running"
    /\ wpc[w] = "get"
    /\ IssueRecorded(w, wjob[w])
    /\ wpc' = [wpc EXCEPT ![w] = "recv"]
    /\ done' = done + 1
    /\ UNCHANGED << cfgVars, procVars, pureVars, tickerVars, rlVars, chanVars,
                    callVars, wjob, wres, feederVars, clpc, consumerVars,
                    aborted, validNames, httpOutcome, classified, cbTrue,
                    dnsHist >>

\* resp, err := client.Get(fullURL): the request goes out.
HttpWorkerGet(w) ==
    /\ engine = "http"
    /\ phase = "running"
    /\ wpc[w] = "get"
    /\ IssueRecorded(w, wjob[w])
    /\ wpc' = [wpc EXCEPT ![w] = "inflight"]
    /\ UNCHANGED << cfgVars, procVars, pureVars, tickerVars, rlVars, chanVars,
                    callVars, wjob, wres, feederVars, clpc, consumerVars, done,
                    aborted, validNames, httpOutcome, classified, cbTrue,
                    dnsHist >>

\* Variant: a transport error also sets the abort flag.
HttpWorkerGetErr_Aborts(w) ==
    /\ engine = "http"
    /\ phase = "running"
    /\ wpc[w] = "inflight"
    /\ inflight' = inflight - 1
    /\ httpOutcome' = [httpOutcome EXCEPT ![wjob[w]] = "err"]
    /\ done' = done + 1
    /\ aborted' = 1
    /\ wjob' = [wjob EXCEPT ![w] = 0]
    /\ wpc' = [wpc EXCEPT ![w] = "recv"]
    /\ UNCHANGED << cfgVars, procVars, pureVars, tickerVars, rlVars, chanVars,
                    callVars, wres, feederVars, clpc, consumerVars, validNames,
                    issued, classified, cbTrue, lateIssued, postAbort, dnsHist >>

\* client.Get returns err != nil: message, done++, continue.
HttpWorkerGetErr(w) ==
    /\ engine = "http"
    /\ phase = "running"
    /\ wpc[w] = "inflight"
    /\ inflight' = inflight - 1
    /\ httpOutcome' = [httpOutcome EXCEPT ![wjob[w]] = "err"]
    /\ done' = done + 1
    /\ wjob' = [wjob EXCEPT ![w] = 0]
    /\ wpc' = [wpc EXCEPT ![w] = "recv"]
    /\ UNCHANGED << cfgVars, procVars, pureVars, tickerVars, rlVars, chanVars,
                    callVars, wres, feederVars, clpc, consumerVars, aborted,
                    validNames, issued, classified, cbTrue, lateIssued,
                    postAbort, dnsHist >>

\* client.Get returns a response; the body is read and closed.
HttpWorkerGetOk(w) ==
    /\ engine = "http"
    /\ phase = "running"
    /\ wpc[w] = "inflight"
    /\ inflight' = inflight - 1
    /\ httpOutcome' = [httpOutcome EXCEPT ![wjob[w]] = "ok"]
    /\ wpc' = [wpc EXCEPT ![w] = "send"]
    /\ UNCHANGED << cfgVars, procVars, pureVars, tickerVars, rlVars, chanVars,
                    callVars, wjob, wres, feederVars, clpc, consumerVars, done,
                    aborted, validNames, issued, classified, cbTrue,
                    lateIssued, postAbort, dnsHist >>

\* Variant: the worker calls the classifier on its result itself and sets
\* the abort flag on a true verdict.
HttpWorkerSend_CallsCallback(w) ==
    /\ engine = "http"
    /\ phase = "running"
    /\ wpc[w] = "send"
    /\ \E b \in BOOLEAN :
          /\ classified' = [classified EXCEPT ![wjob[w]] = @ + 1]
          /\ cbTrue' = (cbTrue \/ b)
          /\ aborted' = IF b THEN 1 ELSE aborted
    /\ done' = done + 1
    /\ wjob' = [wjob EXCEPT ![w] = 0]
    /\ wpc' = [wpc EXCEPT ![w] = "recv"]
    /\ UNCHANGED << cfgVars, procVars, pureVars, tickerVars, rlVars, chanVars,
                    callVars, wres, feederVars, clpc, consumerVars, validNames,
                    inflight, issued, httpOutcome, lateIssued, postAbort,
                    dnsHist >>

\* resultsCh <- &HttpResult{...}; done++.  The result is identified by the
\* index of its target.
HttpWorkerSend(w) ==
    /\ engine = "http"
    /\ phase = "running"
    /\ wpc[w] = "send"
    /\ Len(resultsCh) < ChanCap(nworkers)
    /\ resultsCh' = Append(resultsCh, wjob[w])
    /\ done' = done + 1
    /\ wjob' = [wjob EXCEPT ![w] = 0]
    /\ wpc' = [wpc EXCEPT ![w] = "recv"]
    /\ UNCHANGED << cfgVars, procVars, pureVars, tickerVars, rlVars, jobs,
                    jobsClosed, resultsClosed, callVars, wres, feederVars,
                    clpc, consumerVars, aborted, validNames, httpHist, dnsHist >>

(***************************************************************************)
(* GetURLBatch: feeder, closer and consuming loop.                         *)
(***************************************************************************)
\* Variant: on a set abort flag the feeder leaves without close(jobs).
HttpFeederLoop_NoClose ==
    /\ engine = "http"
    /\ phase \in {"running", "returned"}
    /\ fpc = "loop"
    /\ IF fidx > Len(valid) \/ aborted # 0
       THEN /\ jobsClosed' = (aborted = 0)
            /\ fpc' = "done"
       ELSE /\ fpc' = "send"
            /\ UNCHANGED jobsClosed
    /\ UNCHANGED << cfgVars, procVars, pureVars, tickerVars, rlVars, jobs,
                    resultsCh, resultsClosed, callVars, workerVars, fidx, clpc,
                    consumerVars, done, aborted, validNames, httpHist, dnsHist >>

\* Variant: the feeder does not read the abort flag.
HttpFeederLoop_IgnoreAbort ==
    /\ engine = "http"
    /\ phase \in {"running", "returned"}
    /\ fpc = "loop"
    /\ IF fidx > Len(valid)
       THEN /\ jobsClosed' = TRUE
            /\ fpc' = "done"
       ELSE /\ fpc' = "send"
            /\ UNCHANGED jobsClosed
    /\ UNCHANGED << cfgVars, procVars, pureVars, tickerVars, rlVars, jobs,
                    resultsCh, resultsClosed, callVars, workerVars, fidx, clpc,
                    consumerVars, done, aborted, validNames, httpHist, dnsHist >>

\* Head of the feeder's loop: the range over valid ends, or the abort flag
\* is read; on either exit close(jobs).
HttpFeederLoop ==
    /\ engine = "http"
    /\ phase \in {"running", "returned"}
    /\ fpc = "loop"
    /\ IF fidx > Len(valid) \/ aborted # 0
       THEN /\ jobsClosed' = TRUE
            /\ fpc' = "done"
       ELSE /\ fpc' = "send"
            /\ UNCHANGED jobsClosed
    /\ UNCHANGED << cfgVars, procVars, pureVars, tickerVars, rlVars, jobs,
                    resultsCh, resultsClosed, callVars, workerVars, fidx, clpc,
                    consumerVars, done, aborted, validNames, httpHist, dnsHist >>

\* Variant: the feeder's send never blocks.
HttpFeederSend_NoBlock ==
    /\ engine = "http"
    /\ phase \in {"running", "returned"}
    /\ fpc = "send"
    /\ jobs' = Append(jobs, fidx)
    /\ fidx' = fidx + 1
    /\ fpc' = "loop"
    /\ UNCHANGED << cfgVars, procVars, pureVars, tickerVars, rlVars,
                    jobsClosed, resultsCh, resultsClosed, callVars, workerVars,
                    clpc, consumerVars, done, aborted, validNames, httpHist,
                    dnsHist >>

\* jobs <- u (blocks while the channel is full).
HttpFeederSend ==
    /\ engine = "http"
    /\ phase \in {"running", "returned"}
    /\ fpc = "send"
    /\ Len(jobs) < ChanCap(nworkers)
    /\ jobs' = Append(jobs, fidx)
    /\ fidx' = fidx + 1
    /\ fpc' = "loop"
    /\ UNCHANGED << cfgVars, procVars, pureVars, tickerVars, rlVars,
                    jobsClosed, resultsCh, resultsClosed, callVars, workerVars,
                    clpc, consumerVars, done, aborted, validNames, httpHist,
                    dnsHist >>

\* Variant: close(resultsCh) without waiting for the workers.
Closer_NoWait ==
    /\ phase \in {"running", "returned"}
    /\ clpc = "wait"
    /\ resultsClosed' = TRUE
    /\ clpc' = "done"
    /\ UNCHANGED << cfgVars, procVars, pureVars, tickerVars, rlVars, jobs,
                    jobsClosed, resultsCh, callVars, workerVars, feederVars,
                    consumerVars, done, aborted, validNames, httpHist, dnsHist >>

\* workerWg.Wait(); close(resultsCh)
Closer ==
    /\ phase \in {"running", "returned"}
    /\ clpc = "wait"
    /\ \A w \in Workers : wpc[w] = "exit"
    /\ resultsClosed' = TRUE
    /\ clpc' = "done"
    /\ UNCHANGED << cfgVars, procVars, pureVars, tickerVars, rlVars, jobs,
                    jobsClosed, resultsCh, callVars, workerVars, feederVars,
                    consumerVars, done, aborted, validNames, httpHist, dnsHist >>

\* for r := range resultsCh { if callback(r) { ... } }: a result is received
\* and the callback runs on it and returns b.
HttpConsume ==
    /\ engine = "http"
    /\ phase = "running"
    /\ cpc = "range"
    /\ resultsCh # << >>
    /\ \E b \in BOOLEAN :
          /\ classified' = [classified EXCEPT ![Head(resultsCh)] = @ + 1]
          /\ cbTrue' = (cbTrue \/ b)
          /\ cpc' = IF b THEN "store" ELSE "range"
    /\ resultsCh' = Tail(resultsCh)
    /\ UNCHANGED << cfgVars, procVars, pureVars, tickerVars, rlVars, jobs,
                    jobsClosed, resultsClosed, callVars, workerVars,
                    feederVars, clpc, cres, done, aborted, validNames,
                    inflight, issued, httpOutcome, lateIssued, postAbort,
                    dnsHist >>

\* atomic.StoreInt64(&aborted, 1)
HttpStoreAborted ==
    /\ engine = "http"
    /\ phase = "running"
    /\ cpc = "store"
    /\ aborted' = 1
    /\ cpc' = "range"
    /\ UNCHANGED << cfgVars, procVars, pureVars, tickerVars, rlVars, chanVars,
                    callVars, workerVars, feederVars, clpc, cres, done,
                    validNames, httpHist, dnsHist >>

\* range resultsCh ends on the closed, empty channel; GetURLBatch returns.
HttpReturn ==
    /\ engine = "http"
    /\ phase = "running"
    /\ cpc = "range"
    /\ resultsCh = << >>
    /\ resultsClosed
    /\ phase' = "returned"
    /\ cpc' = "done"
    /\ tickerStopped' = TRUE
    /\ UNCHANGED << cfgVars, procVars, pureVars, tkpc, rlVars, chanVars, valid,
                    total, nworkers, workerVars, feederVars, clpc, cres, done,
                    aborted, validNames, httpHist, dnsHist >>

(***************************************************************************)
(* dnsLookup.  res[k] is what the resolver answers on the k-th attempt:    *)
(* "ok", or an error that is a DNSError with IsNotFound ("notfound"), a    *)
(* DNSError with IsTimeout ("timeout"), another DNSError ("dnserr"), or    *)
(* no DNSError at all ("othererr").                                        *)
(***************************************************************************)
AttemptResults == {"ok", "notfound", "timeout", "dnserr", "othererr"}

\* The loop of dnsLookup from its tries-th iteration on: the string returned
\* and the number of LookupHost calls made by then.
RECURSIVE dnsTry(_, _, _)
dnsTry(name, res, tries) ==
    IF tries >= DnsTries
    THEN [result |-> EmptyStr, tries |-> tries]
    ELSE LET err == res[tries + 1]
         IN  IF err = "ok" THEN [result |-> name, tries |-> tries + 1]
             ELSE IF err = "notfound"
             THEN [result |-> EmptyStr, tries |-> tries + 1]
             ELSE IF err = "timeout" THEN dnsTry(name, res, tries + 1)
             ELSE IF err = "dnserr"
             THEN [result |-> BreakoutSentinel, tries |-> tries + 1]
             ELSE [result |-> EmptyStr, tries |-> tries + 1]

\* Variant: a not-found answer is retried like a timeout.
dnsRun_RetryNotFound(name, res) ==
    dnsTry(name, [k \in DOMAIN res |->
                    IF res[k] = "notfound" THEN "timeout" ELSE res[k]], 0)

\* Variant: a DNSError that is neither not-found nor timeout is skipped.
dnsRun_SkipDnsError(name, res) ==
    dnsTry(name, [k \in DOMAIN res |->
                    IF res[k] = "dnserr" THEN "othererr" ELSE res[k]], 0)

\* One call of dnsLookup against a resolver answering res.
dnsRun(name, res) == dnsTry(name, res, 0)

dnsLookup(name, res) == dnsRun(name, res).result

ResolverAnswers == [1..DnsTries -> AttemptResults]

\* What the resolver may answer to the attempts of one lookup of name id: a
\* deterministic resolver answers by its table, any other resolver anything.
AnswersFor(id) ==
    IF resolverTable = << >> THEN ResolverAnswers ELSE {resolverTable[id]}

(***************************************************************************)
(* FastDNSLookup.                                                          *)
(***************************************************************************)
\* dnsConcurrency := threads * 10, capped at 500 and at total.
DnsConcurrency(t, tot) ==
    LET c1 == t * DnsThreadFactor
        c2 == IF c1 > DnsMaxConcurrency THEN DnsMaxConcurrency ELSE c1
    IN  IF c2 > tot THEN tot ELSE c2

FastDNSLookupStart ==
    /\ engine = "dns"
    /\ phase = "init"
    /\ IF Len(urlList) = 0
       THEN ReturnEarly(<< >>)
       ELSE LET v == FilterValid(urlList)
            IN  IF Len(v) = 0
                THEN ReturnEarly(v)
                ELSE StartGoroutines(v, DnsConcurrency(threads, Len(v)))
    /\ UNCHANGED << cfgVars, procVars, pureVars, tickerStopped, rlVars,
                    chanVars, fidx, cres, done, aborted, validNames, inflight,
                    cbTrue, lateIssued >>

\* Variant: the DNS worker counts its lookup on the HTTP request counter.
DnsWorkerLookup_RateLimited(w) ==
    /\ engine = "dns"
    /\ phase = "running"
    /\ wpc[w] = "recv"
    /\ jobs # << >>
    /\ \E res \in AnswersFor(valid[Head(jobs)]) :
          LET j == Head(jobs)
              r == dnsLookup(Name(valid[j]), res)
          IN  /\ wjob' = [wjob EXCEPT ![w] = j]
              /\ wres' = [wres EXCEPT ![w] = r]
              /\ dnsOutcome' = [dnsOutcome EXCEPT ![j] = Append(@, r)]
    /\ jobs' = Tail(jobs)
    /\ rlCount' = rlCount + 1
    /\ wpc' = [wpc EXCEPT ![w] = "send"]
    /\ UNCHANGED << cfgVars, procVars, pureVars, tickerVars, rlPaused, pauses,
                    jobsClosed, resultsCh, resultsClosed, callVars, feederVars,
                    clpc, consumerVars, done, aborted, validNames, httpHist,
                    received, cbCalls >>

\* for name := range jobs { dnsLookup(resolver, name, lookupTimeout) ... }:
\* a job is received and looked up.
DnsWorkerLookup(w) ==
    /\ engine = "dns"
    /\ phase = "running"
    /\ wpc[w] = "recv"
    /\ jobs # << >>
    /\ \E res \in AnswersFor(valid[Head(jobs)]) :
          LET j == Head(jobs)
              r == dnsLookup(Name(valid[j]), res)
          IN  /\ wjob' = [wjob EXCEPT ![w] = j]
              /\ wres' = [wres EXCEPT ![w] = r]
              /\ dnsOutcome' = [dnsOutcome EXCEPT ![j] = Append(@, r)]
    /\ jobs' = Tail(jobs)
    /\ wpc' = [wpc EXCEPT ![w] = "send"]
    /\ UNCHANGED << cfgVars, procVars, pureVars, tickerVars, rlVars,
                    jobsClosed, resultsCh, resultsClosed, callVars, feederVars,
                    clpc, consumerVars, done, aborted, validNames, httpHist,
                    received, cbCalls >>

\* resultsCh <- (the lookup's result); done++.  The result is sent with the
\* index of its name.
DnsWorkerSend(w) ==
    /\ engine = "dns"
    /\ phase = "running"
    /\ wpc[w] = "send"
    /\ Len(resultsCh) < ChanCap(nworkers)
    /\ resultsCh' = Append(resultsCh, << wjob[w], wres[w] >>)
    /\ done' = done + 1
    /\ wjob' = [wjob EXCEPT ![w] = 0]
    /\ wres' = [wres EXCEPT ![w] = EmptyStr]
    /\ wpc' = [wpc EXCEPT ![w] = "recv"]
    /\ UNCHANGED << cfgVars, procVars, pureVars, tickerVars, rlVars, jobs,
                    jobsClosed, resultsClosed, callVars, feederVars, clpc,
                    consumerVars, aborted, validNames, httpHist, dnsHist >>

\* for _, n := range filtered { jobs <- n }
DnsFeederSend ==
    /\ engine = "dns"
    /\ phase \in {"running", "returned"}
    /\ fpc = "loop"
    /\ fidx <= Len(valid)
    /\ Len(jobs) < ChanCap(nworkers)
    /\ jobs' = Append(jobs, fidx)
    /\ fidx' = fidx + 1
    /\ UNCHANGED << cfgVars, procVars, pureVars, tickerVars, rlVars,
                    jobsClosed, resultsCh, resultsClosed, callVars, workerVars,
                    fpc, clpc, consumerVars, done, aborted, validNames,
                    httpHist, dnsHist >>

\* Variant: the feeder closes the job queue before its last send.
DnsFeederClose_Early ==
    /\ engine = "dns"
    /\ phase \in {"running", "returned"}
    /\ fpc = "loop"
    /\ ~jobsClosed
    /\ fidx >= Len(valid)
    /\ jobsClosed' = TRUE
    /\ fpc' = IF fidx > Len(valid) THEN "done" ELSE "loop"
    /\ UNCHANGED << cfgVars, procVars, pureVars, tickerVars, rlVars, jobs,
                    resultsCh, resultsClosed, callVars, workerVars, fidx, clpc,
                    consumerVars, done, aborted, validNames, httpHist, dnsHist >>

\* close(jobs)
DnsFeederClose ==
    /\ engine = "dns"
    /\ phase \in {"running", "returned"}
    /\ fpc = "loop"
    /\ fidx > Len(valid)
    /\ jobsClosed' = TRUE
    /\ fpc' = "done"
    /\ UNCHANGED << cfgVars, procVars, pureVars, tickerVars, rlVars, jobs,
                    resultsCh, resultsClosed, callVars, workerVars, fidx, clpc,
                    consumerVars, done, aborted, validNames, httpHist, dnsHist >>

\* Variant: the callback is not invoked.
DnsConsume_SkipCallback ==
    /\ engine = "dns"
    /\ phase = "running"
    /\ cpc = "range"
    /\ resultsCh # << >>
    /\ LET item == Head(resultsCh)
           name == item[2]
       IN  /\ received' = [received EXCEPT ![item[1]] = @ + 1]
           /\ IF name = EmptyStr
              THEN UNCHANGED << cres, cpc, phase >>
              ELSE IF name = BreakoutSentinel
                   THEN /\ phase' = "exited"
                        /\ cpc' = "done"
                        /\ UNCHANGED cres
                   ELSE /\ cres' = item
                        /\ cpc' = "append"
                        /\ UNCHANGED phase
    /\ resultsCh' = Tail(resultsCh)
    /\ UNCHANGED << cfgVars, procVars, pureVars, tickerVars, rlVars, jobs,
                    jobsClosed, resultsClosed, valid, total, nworkers,
                    workerVars, feederVars, clpc, done, aborted, validNames,
                    httpHist, dnsOutcome, cbCalls >>

\* Variant: the empty string is not skipped.
DnsConsume_NoSkip ==
    /\ engine = "dns"
    /\ phase = "running"
    /\ cpc = "range"
    /\ resultsCh # << >>
    /\ LET item == Head(resultsCh)
           name == item[2]
       IN  /\ received' = [received EXCEPT ![item[1]] = @ + 1]
           /\ IF name = BreakoutSentinel
              THEN /\ phase' = "exited"
                   /\ cpc' = "done"
                   /\ UNCHANGED cres
              ELSE /\ cres' = item
                   /\ cpc' = IF hasCallback THEN "cb" ELSE "append"
                   /\ UNCHANGED phase
    /\ resultsCh' = Tail(resultsCh)
    /\ UNCHANGED << cfgVars, procVars, pureVars, tickerVars, rlVars, jobs,
                    jobsClosed, resultsClosed, valid, total, nworkers,
                    workerVars, feederVars, clpc, done, aborted, validNames,
                    httpHist, dnsOutcome, cbCalls >>

\* Variant: the sentinel is skipped instead of ending the process.
DnsConsume_NoExit ==
    /\ engine = "dns"
    /\ phase = "running"
    /\ cpc = "range"
    /\ resultsCh # << >>
    /\ LET item == Head(resultsCh)
           name == item[2]
       IN  /\ received' = [received EXCEPT ![item[1]] = @ + 1]
           /\ IF name = EmptyStr \/ name = BreakoutSentinel
              THEN UNCHANGED << cres, cpc, phase >>
              ELSE /\ cres' = item
                   /\ cpc' = IF hasCallback THEN "cb" ELSE "append"
                   /\ UNCHANGED phase
    /\ resultsCh' = Tail(resultsCh)
    /\ UNCHANGED << cfgVars, procVars, pureVars, tickerVars, rlVars, jobs,
                    jobsClosed, resultsClosed, valid, total, nworkers,
                    workerVars, feederVars, clpc, done, aborted, validNames,
                    httpHist, dnsOutcome, cbCalls >>

\* Variant: "" ends the consuming loop (break for continue).
DnsConsume_BreakOnEmpty ==
    /\ engine = "dns"
    /\ phase = "running"
    /\ cpc = "range"
    /\ resultsCh # << >>
    /\ LET item == Head(resultsCh)
           name == item[2]
       IN  /\ received' = [received EXCEPT ![item[1]] = @ + 1]
           /\ IF name = EmptyStr
              THEN /\ phase' = "returned"
                   /\ cpc' = "done"
                   /\ UNCHANGED cres
              ELSE IF name = BreakoutSentinel
                   THEN /\ phase' = "exited"
                        /\ cpc' = "done"
                        /\ UNCHANGED cres
                   ELSE /\ cres' = item
                        /\ cpc' = IF hasCallback THEN "cb" ELSE "append"
                        /\ UNCHANGED phase
    /\ resultsCh' = Tail(resultsCh)
    /\ UNCHANGED << cfgVars, procVars, pureVars, tickerVars, rlVars, jobs,
                    jobsClosed, resultsClosed, valid, total, nworkers,
                    workerVars, feederVars, clpc, done, aborted, validNames,
                    httpHist, dnsOutcome, cbCalls >>

\* for name := range resultsCh: a result is received; "" is skipped, the
\* sentinel ends the process (os.Exit(1)), a name goes on to the callback.
DnsConsume ==
    /\ engine = "dns"
    /\ phase = "running"
    /\ cpc = "range"
    /\ resultsCh # << >>
    /\ LET item == Head(resultsCh)
           name == item[2]
       IN  /\ received' = [received EXCEPT ![item[1]] = @ + 1]
           /\ IF name = EmptyStr
              THEN UNCHANGED << cres, cpc, phase >>
              ELSE IF name = BreakoutSentinel
                   THEN /\ phase' = "exited"
                        /\ cpc' = "done"
                        /\ UNCHANGED cres
                   ELSE /\ cres' = item
                        /\ cpc' = IF hasCallback THEN "cb" ELSE "append"
                        /\ UNCHANGED phase
    /\ resultsCh' = Tail(resultsCh)
    /\ UNCHANGED << cfgVars, procVars, pureVars, tickerVars, rlVars, jobs,
                    jobsClosed, resultsClosed, valid, total, nworkers,
                    workerVars, feederVars, clpc, done, aborted, validNames,
                    httpHist, dnsOutcome, cbCalls >>

\* if callback != nil { callback(name) }
DnsCallback ==
    /\ engine = "dns"
    /\ phase = "running"
    /\ cpc = "cb"
    /\ cbCalls' = [cbCalls EXCEPT ![cres[1]] = @ + 1]
    /\ cpc' = "append"
    /\ UNCHANGED << cfgVars, procVars, pureVars, tickerVars, rlVars, chanVars,
                    callVars, workerVars, feederVars, clpc, cres, done,
                    aborted, validNames, httpHist, dnsOutcome, received >>

\* validNames = append(validNames, name)
DnsAppend ==
    /\ engine = "dns"
    /\ phase = "running"
    /\ cpc = "append"
    /\ validNames' = Append(validNames, cres)
    /\ cres' = << >>
    /\ cpc' = "range"
    /\ UNCHANGED << cfgVars, procVars, pureVars, tickerVars, rlVars, chanVars,
                    callVars, workerVars, feederVars, clpc, done, aborted,
                    httpHist, dnsHist >>

\* range resultsCh ends on the closed, empty channel; return validNames.
DnsReturn ==
    /\ engine = "dns"
    /\ phase = "running"
    /\ cpc = "range"
    /\ resultsCh = << >>
    /\ resultsClosed
    /\ phase' = "returned"
    /\ cpc' = "done"
    /\ tickerStopped' = TRUE
    /\ UNCHANGED << cfgVars, procVars, pureVars, tkpc, rlVars, chanVars, valid,
                    total, nworkers, workerVars, feederVars, clpc, cres, done,
                    aborted, validNames, httpHist, dnsHist >>

(***************************************************************************)
(* The progress reporter: go func() { for range ticker.C { d := load(done);*)
(* Printf(...) } }().  A tick reads done and prints; it writes no shared   *)
(* state.  The deferred ticker.Stop() of the call ends the ticks but does  *)
(* not close ticker.C, so the goroutine stays in its range statement.      *)
(***************************************************************************)
TickerTick ==
    /\ phase = "running"
    /\ tkpc = "range"
    /\ ~tickerStopped
    /\ done \in 0..total
    /\ UNCHANGED vars

(***************************************************************************)
(* The specification: one batch call, of either engine.                    *)
(***************************************************************************)
NextHttp ==
    \/ GetURLBatchStart
    \/ \E w \in Workers : RateLimitWait(w)
    \/ \E w \in Workers : RateLimitAdd(w)
    \/ \E w \in Workers : RateLimitPause(w)
    \/ \E w \in Workers : RateLimitWake(w)
    \/ \E w \in Workers : HttpWorkerRecv(w)
    \/ \E w \in Workers : HttpWorkerCheckAborted(w)
    \/ \E w \in Workers : HttpWorkerGet(w)
    \/ \E w \in Workers : HttpWorkerGetErr(w)
    \/ \E w \in Workers : HttpWorkerGetOk(w)
    \/ \E w \in Workers : HttpWorkerSend(w)
    \/ \E w \in Workers : WorkerExit(w)
    \/ HttpFeederLoop
    \/ HttpFeederSend
    \/ Closer
    \/ HttpConsume
    \/ HttpStoreAborted
    \/ HttpReturn
    \/ TickerTick

NextDns ==
    \/ FastDNSLookupStart
    \/ \E w \in Workers : DnsWorkerLookup(w)
    \/ \E w \in Workers : DnsWorkerSend(w)
    \/ \E w \in Workers : WorkerExit(w)
    \/ DnsFeederSend
    \/ DnsFeederClose
    \/ Closer
    \/ DnsConsume
    \/ DnsCallback
    \/ DnsAppend
    \/ DnsReturn
    \/ TickerTick

Next == NextHttp \/ NextDns

\* One GetURLBatch call.
SpecHttp == InitHttp /\ [][NextHttp]_vars

\* One FastDNSLookup call.
SpecDns == InitDns /\ [][NextDns]_vars

\* One FastDNSLookup call against a deterministic resolver.
SpecDnsDet == InitDnsDet /\ [][NextDns]_vars

(***************************************************************************)
(* Functions applied on their own: Init draws the argument, the action     *)
(* applies the function once and keeps the result.                         *)
(***************************************************************************)
\* No batch call is made.
NoBatch ==
    /\ urlList = << >>
    /\ threads = 0
    /\ hasCallback = FALSE
    /\ rlThreshold = 0
    /\ resolverTable = << >>
    /\ InitCall

\* IsValidDomain on names given by the lengths of their labels: the name of
\* << 2, 0, 1 >> is "aa..a", the name of << 0 >> is "".
LabelLens == {0, 1, MaxLabelLen - 2, MaxLabelLen - 1, MaxLabelLen,
              MaxLabelLen + 1}

RECURSIVE DomainOf(_)
DomainOf(lens) ==
    IF Len(lens) = 1
    THEN Rep("a", lens[1])
    ELSE Rep("a", lens[1]) \o << "." >> \o DomainOf(Tail(lens))

InitValidDomain ==
    /\ engine = "IsValidDomain"
    /\ pIn \in UNION { [1..n -> LabelLens] : n \in 1..MaxLabels }
    /\ pOut = << >>
    /\ NoBatch

ApplyIsValidDomain ==
    /\ engine = "IsValidDomain"
    /\ pOut = << >>
    /\ pOut' = << IsValidDomain(DomainOf(pIn)) >>
    /\ UNCHANGED << cfgVars, procVars, tickerVars, rlVars, chanVars, callVars,
                    workerVars, feederVars, clpc, consumerVars, done, aborted,
                    validNames, httpHist, dnsHist, pIn >>

SpecValidDomain == InitValidDomain /\ [][ApplyIsValidDomain]_vars

\* dnsLookup on a name of the pool against every way the resolver can answer
\* its attempts.
InitDnsLookup ==
    /\ engine = "dnsLookup"
    /\ pIn \in [name : DOMAIN NamePool, res : ResolverAnswers]
    /\ pOut = << >>
    /\ NoBatch

ApplyDnsLookup ==
    /\ engine = "dnsLookup"
    /\ pOut = << >>
    /\ pOut' = dnsRun(Name(pIn.name), pIn.res)
    /\ UNCHANGED << cfgVars, procVars, tickerVars, rlVars, chanVars, callVars,
                    workerVars, feederVars, clpc, consumerVars, done, aborted,
                    validNames, httpHist, dnsHist, pIn >>

SpecDnsLookup == InitDnsLookup /\ [][ApplyDnsLookup]_vars

(***************************************************************************)
(* The S3 classifier (printS3Response) under the consuming loop of         *)
(* GetURLBatch.  An HttpResult carries the status code and the reason      *)
(* phrase of the response as the server sent them; URL is the position of  *)
(* the target in the batch.                                                *)
(***************************************************************************)
\* strings.Contains(str, sub)
Contains(str, sub) ==
    \E i \in 1..(Len(str) - Len(sub) + 1) :
        SubSeq(str, i, i + Len(sub) - 1) = sub

ReasonOK == << "O", "K" >>
ReasonNotFound == << "N", "o", "t", " ", "F", "o", "u", "n", "d" >>
ReasonBadRequest ==
    << "B", "a", "d", " ", "R", "e", "q", "u", "e", "s", "t" >>
ReasonSlowDown == << "S", "l", "o", "w", " ", "D", "o", "w", "n" >>

StatusCodes == {200, 403, 404, 503}
Reasons == {ReasonOK, ReasonNotFound, ReasonBadRequest, ReasonSlowDown}
HttpResults == [StatusCode : StatusCodes, Reason : Reasons]

\* The HttpResult of the response resp to the request for target url.
HttpResult(resp, url) ==
    [StatusCode |-> resp.StatusCode, Reason |-> resp.Reason, URL |-> url]

\* FmtOutput(data) of a finding on target url.
S3Finding(msg, url, access) ==
    [Platform |-> "aws", Msg |-> msg, Target |-> url, Access |-> access]

\* Variant: an open bucket is reported as protected.
printS3Response_OpenAsProtected(result) ==
    IF result.StatusCode = 404
    THEN [findings |-> << >>, abort |-> FALSE]
    ELSE IF Contains(result.Reason, ReasonBadRequest)
    THEN [findings |-> << >>, abort |-> FALSE]
    ELSE IF result.StatusCode = 200
    THEN [findings |-> << S3Finding("OPEN S3 BUCKET", result.URL, "protected") >>,
          abort |-> FALSE]
    ELSE IF result.StatusCode = 403
    THEN [findings |-> << S3Finding("Protected S3 Bucket", result.URL,
                               "protected") >>,
          abort |-> FALSE]
    ELSE IF Contains(result.Reason, ReasonSlowDown)
    THEN [findings |-> << >>, abort |-> TRUE]
    ELSE [findings |-> << >>, abort |-> FALSE]

\* printS3Response: the findings it reports and the value it returns.  The
\* cases of the switch are tried in the order of the source.
printS3Response(result) ==
    IF result.StatusCode = 404
    THEN [findings |-> << >>, abort |-> FALSE]
    ELSE IF Contains(result.Reason, ReasonBadRequest)
    THEN [findings |-> << >>, abort |-> FALSE]
    ELSE IF result.StatusCode = 200
    THEN [findings |-> << S3Finding("OPEN S3 BUCKET", result.URL, "public") >>,
          abort |-> FALSE]
    ELSE IF result.StatusCode = 403
    THEN [findings |-> << S3Finding("Protected S3 Bucket", result.URL,
                               "protected") >>,
          abort |-> FALSE]
    ELSE IF Contains(result.Reason, ReasonSlowDown)
    THEN [findings |-> << >>, abort |-> TRUE]
    ELSE [findings |-> << >>, abort |-> FALSE]

\* The results of a batch in the order in which the consuming loop receives
\* them.
InitS3 ==
    /\ engine = "printS3Response"
    /\ pIn \in UNION { [1..n -> HttpResults] : n \in 1..MaxResults }
    /\ pOut = [next |-> 1, findings |-> << >>, aborted |-> 0]
    /\ NoBatch

\* for r := range resultsCh { if callback(r) { store(aborted, 1) } } with
\* printS3Response as the callback.
S3Consume ==
    /\ engine = "printS3Response"
    /\ pOut.next <= Len(pIn)
    /\ LET r == printS3Response(HttpResult(pIn[pOut.next], pOut.next))
       IN  pOut' = [next |-> pOut.next + 1,
                    findings |-> pOut.findings \o r.findings,
                    aborted |-> IF r.abort THEN 1 ELSE pOut.aborted]
    /\ UNCHANGED << cfgVars, procVars, tickerVars, rlVars, chanVars, callVars,
                    workerVars, feederVars, clpc, consumerVars, done, aborted,
                    validNames, httpHist, dnsHist, pIn >>

SpecS3 == InitS3 /\ [][S3Consume]_vars

\* One GetURLBatch call under a fair scheduler: while some goroutine of the
\* call can take a step, a step is eventually taken.  The Go scheduler runs
\* every runnable goroutine; client.Get ends by its timeout, time.Sleep ends,
\* and the callback is taken to return.
SpecHttpFair == InitHttp /\ [][NextHttp]_vars /\ WF_vars(NextHttp)

\* One batch call of either engine.
Spec == Init /\ [][Next]_vars

(***************************************************************************)
(* Properties of GetURLBatch and rateLimitCheck.                           *)
(***************************************************************************)
\* Workers that have passed the abort check for their job and are on the
\* way to issuing its request.
Dispatching == {"rl_wait", "rl_add", "rl_set", "rl_sleep", "get"}

Sleepers == {w \in Workers : wpc[w] = "rl_sleep"}

\* C1 as stated: once the classifier has returned true, no worker issues a
\* new HTTP request.
C1_NoRequestAfterClassifierTrue == ~lateIssued

\* C1 amended: a worker that reads the abort flag as set issues nothing for
\* that job, so after the flag has been stored each worker issues at most
\* one further request, for the job whose abort check it had passed before
\* the store; a worker still heading for a request while the flag is set
\* has issued none since the store.
C1_AtMostOneLateRequestPerWorker ==
    engine = "http" =>
        \A w \in Workers :
            /\ postAbort[w] <= 1
            /\ (aborted # 0 /\ wpc[w] \in Dispatching) => postAbort[w] = 0

C1_Witness ==
    /\ engine = "http"
    /\ aborted # 0
    /\ \E w \in Workers : postAbort[w] = 1 /\ wpc[w] = "inflight"

\* C2: at most k = threads requests are issued and not yet completed.
C2_InFlightAtMostWorkers ==
    (engine = "http" /\ phase # "init") =>
        /\ inflight <= threads
        /\ inflight = Cardinality({w \in Workers : wpc[w] = "inflight"})

C2_Witness ==
    /\ engine = "http"
    /\ threads = MaxThreads
    /\ inflight = threads

\* The names of the pool that pass IsValidDomain, and the positions of the
\* input list that hold one.
PassingNames == {id \in DOMAIN NamePool : IsValidDomain(Name(id))}
ValidEntries == {k \in 1..Len(urlList) : urlList[k] \in PassingNames}

\* C3: in both engines only entries that pass IsValidDomain are scheduled
\* (queued, taken by a worker, dispatched or looked up), total counts the
\* entries that pass, and a call whose entries all fail returns at once
\* with no worker started.
C3_InvalidNeverScheduled ==
    phase # "init" =>
        /\ total = Cardinality(ValidEntries)
        /\ \A i \in Targets : valid[i] \in PassingNames
        /\ \A k \in 1..Len(jobs) :
               jobs[k] \in Targets /\ valid[jobs[k]] \in PassingNames
        /\ \A w \in Workers :
               wjob[w] # 0 => valid[wjob[w]] \in PassingNames
        /\ ValidEntries = {} =>
               /\ phase = "returned"
               /\ nworkers = 0
               /\ fpc = "none"
               /\ jobs = << >>
               /\ done = 0

C3_Witness ==
    /\ phase = "returned"
    /\ Len(urlList) = 3
    /\ Cardinality(ValidEntries) = 2
    /\ total = 2
    /\ done = 2

\* C4: with threshold T > 0, after N admissions (rlCount = N) the pauses
\* triggered, together with the workers that have seen a multiple of T and
\* are about to set the flag, number floor(N / T): each multiple of T is
\* seen by exactly one worker.
C4_PausesAreFloorOfCount ==
    rlThreshold > 0 =>
        pauses + Cardinality({w \in Workers : wpc[w] = "rl_set"})
            = rlCount \div rlThreshold

C4_Witness ==
    /\ rlThreshold = 2
    /\ rlCount = 3
    /\ pauses = 1
    /\ \A w \in Workers : wpc[w] \notin {"rl_add", "rl_set", "rl_sleep"}

\* C5 as stated: at most one worker is inside the rate-limit sleep.
C5_AtMostOneSleeper == Cardinality(Sleepers) <= 1

\* The comment on rlPaused: it is 1 while a worker is sleeping.
C5_PausedWhileSleeping == Sleepers # {} => rlPaused = 1

\* C10 as stated: at return the classifier has run exactly once on every
\* target whose request completed without transport error and on no other,
\* no target was dispatched twice, and without an abort every valid target
\* was dispatched.
C10_ClassifiedOncePerCompletedRequest ==
    (engine = "http" /\ phase = "returned") =>
        \A i \in Targets :
            /\ issued[i] <= 1
            /\ classified[i] = (IF httpOutcome[i] = "ok" THEN 1 ELSE 0)
            /\ (~cbTrue) => issued[i] = 1

\* The same with at least one worker.
C10_HoldsWithWorkers ==
    threads >= 1 => C10_ClassifiedOncePerCompletedRequest

(***************************************************************************)
(* Properties of FastDNSLookup.                                            *)
(***************************************************************************)
\* The number of positions of seq whose element satisfies the test.
Resolved(i) == {k \in 1..Len(dnsOutcome[i]) : dnsOutcome[i][k] = Name(valid[i])}
NotFound(i) == {k \in 1..Len(dnsOutcome[i]) : dnsOutcome[i][k] = EmptyStr}
Fatal(i) == {k \in 1..Len(dnsOutcome[i]) : dnsOutcome[i][k] = BreakoutSentinel}
Appended(i) == {k \in 1..Len(validNames) : validNames[k][1] = i}

RECURSIVE SumUpTo(_, _)
SumUpTo(f, n) == IF n = 0 THEN 0 ELSE f[n] + SumUpTo(f, n - 1)
ReceivedCount == SumUpTo(received, Len(received))

\* C6 as stated: when FastDNSLookup returns, every valid name has produced
\* exactly one outcome and the consuming loop has received it.
C6_OneOutcomePerName ==
    (engine = "dns" /\ phase = "returned") =>
        \A i \in Targets : Len(dnsOutcome[i]) = 1 /\ received[i] = 1

\* The same with a caller thread count of at least 1.
C6_HoldsWithWorkers == threads >= 1 => C6_OneOutcomePerName

\* C7: a call that returns had no fatal outcome, and returns exactly the
\* names whose lookup resolved, each as often as it resolved: no name whose
\* outcome was not-found is in the result, nor the empty string.
C7_ReturnsExactlyResolved ==
    engine = "dns" =>
        /\ \A k \in 1..Len(validNames) :
               /\ validNames[k][1] \in Targets
               /\ validNames[k][2] = Name(valid[validNames[k][1]])
               /\ Resolved(validNames[k][1]) # {}
        /\ phase = "returned" =>
               \A i \in Targets :
                   /\ Fatal(i) = {}
                   /\ Cardinality(Appended(i)) = Cardinality(Resolved(i))

C7_Witness ==
    /\ engine = "dns"
    /\ phase = "returned"
    /\ Len(validNames) = 1
    /\ \E i, j \in Targets :
          /\ Resolved(i) # {} /\ Appended(i) # {}
          /\ NotFound(j) # {} /\ Appended(j) = {}

\* The callback invocations for name i that the consumer has completed
\* and whose name it has not yet appended.
CallbackPending(i) == IF cpc = "append" /\ cres[1] = i THEN 1 ELSE 0

\* C8: with a callback, every appended name had its callback completed
\* before the append (invocations = appends + the one between callback and
\* append), the callback never runs for a not-found or fatal outcome, and
\* at return it has run exactly once per resolved outcome.
C8_CallbackOncePerResolved ==
    (engine = "dns" /\ hasCallback /\ phase # "init") =>
        \A i \in Targets :
            /\ cbCalls[i] = Cardinality(Appended(i)) + CallbackPending(i)
            /\ cbCalls[i] <= Cardinality(Resolved(i))
            /\ phase = "returned" => cbCalls[i] = Cardinality(Resolved(i))

C8_Witness ==
    /\ engine = "dns"
    /\ hasCallback
    /\ phase = "returned"
    /\ \E i, j \in Targets :
          /\ Resolved(i) # {} /\ cbCalls[i] = 1
          /\ NotFound(j) # {} /\ cbCalls[j] = 0

\* The consuming loop has received a fatal outcome.
FatalReceived == \E i \in Targets : Fatal(i) # {} /\ received[i] > 0

\* Every lookup made so far ended fatally (the resolver always fails).
AllLookupsFatal == \A i \in Targets : Resolved(i) = {} /\ NotFound(i) = {}

\* C9: a received fatal outcome has terminated the process; the terminated
\* process invokes no callback, appends no name and never returns; and when
\* every lookup is fatal the first outcome received is the only one ever
\* received, nothing is called back or appended, and once a lookup has been
\* made the call never returns.
C9_FatalTerminatesProcess ==
    /\ [](engine = "dns" =>
            /\ FatalReceived <=> phase = "exited"
            /\ (AllLookupsFatal /\ phase # "init") =>
                   /\ ReceivedCount <= 1
                   /\ validNames = << >>
                   /\ \A i \in Targets : cbCalls[i] = 0
                   /\ ReceivedCount = 1 => phase = "exited"
                   /\ (\E i \in Targets : dnsOutcome[i] # << >>)
                          => phase # "returned")
    /\ [][phase = "exited" =>
            /\ phase' = "exited"
            /\ cbCalls' = cbCalls
            /\ validNames' = validNames
            /\ received' = received]_vars

C9_Witness ==
    /\ engine = "dns"
    /\ phase = "exited"
    /\ total = 3
    /\ AllLookupsFatal
    /\ ReceivedCount = 1
    /\ \E i \in Targets : dnsOutcome[i] = << >>


(***************************************************************************)
(* Goroutines of a call after it has returned.                             *)
(***************************************************************************)
WorkersExited == \A w \in Workers : wpc[w] = "exit"
FeederEnded == fpc \in {"none", "done"}
CloserEnded == clpc \in {"none", "done"}
TickerEnded == tkpc \in {"none", "done"}

\* The call has returned and no goroutine it started can take another step.
Quiescent == phase = "returned" /\ ~ENABLED Next

\* C11: once a batch call has returned and its goroutines have run as far as
\* they can, every worker, the feeder, the closer and the progress ticker
\* goroutine have terminated: none is left blocked forever.
C11_NoGoroutineLeftBlocked ==
    Quiescent => WorkersExited /\ FeederEnded /\ CloserEnded /\ TickerEnded

\* C12: the result queue is closed only after every worker has left its
\* loop, so when a batch call returns normally each of its workers has
\* exited and none runs during a later call.
C12_WorkersJoinedAtReturn ==
    /\ resultsClosed => WorkersExited
    /\ phase = "returned" => WorkersExited

\* A call with the largest pool has returned after completing work.
C12_Witness ==
    /\ phase = "returned"
    /\ nworkers = MaxThreads
    /\ nworkers >= 2
    /\ done = total
    /\ total >= 2
    /\ WorkersExited

\* C13: under a fair scheduler every GetURLBatch call with at least one
\* worker eventually returns, whether or not the classifier aborts the batch;
\* in particular it never reaches a state where feeder, workers, closer and
\* consumer all wait on each other.
C13_BatchEventuallyReturns ==
    (engine = "http" /\ threads >= 1) ~> (phase = "returned")

\* The safety half of C13: while a call with at least one worker is running,
\* some goroutine of it can take a step that changes the state.
C13_NoCircularWait ==
    (engine = "http" /\ threads >= 1 /\ phase = "running") =>
        ENABLED <<NextHttp>>_vars

\* An aborted batch of the largest size, run by at least one worker, has
\* returned.
C13_Witness ==
    /\ engine = "http"
    /\ threads >= 1
    /\ phase = "returned"
    /\ aborted # 0
    /\ total = MaxNames

(***************************************************************************)
(* FastDNSLookup against a deterministic resolver.                         *)
(***************************************************************************)
\* The names a returned result holds.
ResultMembers == { validNames[k][2] : k \in 1..Len(validNames) }

\* The names of the list that the deterministic resolver resolves, when the
\* call runs a pool at all.
ResolvableMembers ==
    IF nworkers = 0
    THEN {}
    ELSE { Name(valid[i]) : i \in { j \in Targets :
               dnsLookup(Name(valid[j]), resolverTable[valid[j]])
                   = Name(valid[j]) } }

\* C14: against a deterministic resolver the membership of the list that
\* FastDNSLookup returns is fixed by the input list and the resolver alone,
\* whatever the interleaving of workers and the order of completion: two
\* runs on the same list return the same members.
C14_MembershipFixedByInput ==
    (engine = "dns" /\ resolverTable # << >> /\ phase = "returned") =>
        ResultMembers = ResolvableMembers

\* A run over two different names, one resolving and one not, completed by
\* several workers.
C14_Witness ==
    /\ engine = "dns"
    /\ resolverTable # << >>
    /\ phase = "returned"
    /\ nworkers >= 2
    /\ Cardinality({ valid[i] : i \in Targets }) = 2
    /\ Cardinality(ResultMembers) = 1

(***************************************************************************)
(* IsValidDomain.                                                          *)
(***************************************************************************)
RECURSIVE SumLens(_)
SumLens(lens) == IF lens = << >> THEN 0 ELSE Head(lens) + SumLens(Tail(lens))

\* Length of the name with these labels: the labels and the dots between.
TotalLen(lens) == SumLens(lens) + Len(lens) - 1

\* C15: IsValidDomain(name) is true exactly when the name is at most 253 long
\* and each of its dot-separated labels is 1 to 63 long; so the empty string
\* and names with a leading, trailing or doubled dot are invalid.
C15_ValidIffLengthsInRange ==
    (engine = "IsValidDomain" /\ pOut # << >>) =>
        pOut[1] = ( /\ TotalLen(pIn) <= MaxDomainLen
                    /\ \A k \in 1..Len(pIn) : pIn[k] \in 1..MaxLabelLen )

\* A name of exactly 253 characters in four labels has been accepted.
C15_Witness ==
    /\ engine = "IsValidDomain"
    /\ pOut = << TRUE >>
    /\ Len(pIn) = 4
    /\ TotalLen(pIn) = MaxDomainLen

\* A name with a doubled dot has been rejected.
C15_RejectsEmptyLabel ==
    /\ engine = "IsValidDomain"
    /\ pOut = << FALSE >>
    /\ Len(pIn) = 3
    /\ pIn[2] = 0
    /\ pIn[1] = 1

(***************************************************************************)
(* Size of the FastDNSLookup pool.                                         *)
(***************************************************************************)
Smaller(a, b) == IF a < b THEN a ELSE b
Larger(a, b) == IF a > b THEN a ELSE b

\* C16 as stated: FastDNSLookup starts min(500, max(threads * 10, 1),
\* len(names)) worker goroutines, for every caller thread count, 0 included.
C16_WorkerCountAtLeastOne ==
    (engine = "dns" /\ phase = "running") =>
        nworkers = Smaller(DnsMaxConcurrency,
                       Smaller(Larger(threads * DnsThreadFactor, 1), total))

\* The same with a caller thread count of at least 1.
C16_HoldsWithThreads == threads >= 1 => C16_WorkerCountAtLeastOne

(***************************************************************************)
(* The rate limiter when it is not configured.                             *)
(***************************************************************************)
InRateLimitCheck(w) == wpc[w] \in {"rl_wait", "rl_add", "rl_set", "rl_sleep"}

\* C17: with a threshold of 0 or less rateLimitCheck returns at once: the
\* request counter and the paused flag keep their values and no caller ever
\* waits on the flag or sleeps.
C17_DisabledLimiterIsNoOp ==
    (engine = "http" /\ rlThreshold <= 0) =>
        /\ rlCount = 0
        /\ rlPaused = 0
        /\ pauses = 0
        /\ \A w \in Workers : ~InRateLimitCheck(w)

\* A batch of the largest size has been requested in full by several workers
\* with the limiter off.
C17_Witness ==
    /\ engine = "http"
    /\ rlThreshold <= 0
    /\ phase = "returned"
    /\ nworkers >= 2
    /\ total = MaxNames
    /\ \A i \in Targets : issued[i] = 1

(***************************************************************************)
(* The S3 classifier.                                                      *)
(***************************************************************************)
\* The results the consuming loop has handed to the classifier so far.
Classified == 1..(pOut.next - 1)

\* The findings reported on target k.
FindingsOn(k) ==
    { i \in 1..Len(pOut.findings) : pOut.findings[i].Target = k }

OnePublicFinding(k) ==
    /\ Cardinality(FindingsOn(k)) = 1
    /\ \A i \in FindingsOn(k) : pOut.findings[i].Access = "public"

\* C18 as stated: every 404 result yields no finding, every 200 result
\* exactly one finding with access "public" on its target, and a batch of
\* such results is not aborted.
C18_Every200IsOnePublicFinding ==
    engine = "printS3Response" =>
        /\ \A k \in Classified :
               /\ pIn[k].StatusCode = 404 => FindingsOn(k) = {}
               /\ pIn[k].StatusCode = 200 => OnePublicFinding(k)
        /\ (\A k \in Classified : pIn[k].StatusCode \in {200, 404})
               => pOut.aborted = 0

\* C18 amended: the same for the 200 results whose reason phrase does not
\* contain "Bad Request"; a 200 result whose reason contains it yields no
\* finding.
C18_PlainOkIsOnePublicFinding ==
    engine = "printS3Response" =>
        /\ \A k \in Classified :
               /\ pIn[k].StatusCode = 404 => FindingsOn(k) = {}
               /\ pIn[k].StatusCode = 200 =>
                      IF Contains(pIn[k].Reason, ReasonBadRequest)
                      THEN FindingsOn(k) = {}
                      ELSE OnePublicFinding(k)
        /\ (\A k \in Classified : pIn[k].StatusCode \in {200, 404})
               => pOut.aborted = 0

\* The batch of the scenario: two 404 results and one 200 OK result have
\* been classified, with one finding in all.
C18_Witness ==
    /\ engine = "printS3Response"
    /\ Len(pIn) = 3
    /\ pOut.next = 4
    /\ pIn[1].StatusCode = 404
    /\ pIn[2] = [StatusCode |-> 200, Reason |-> ReasonOK]
    /\ pIn[3].StatusCode = 404
    /\ Len(pOut.findings) = 1
    /\ pOut.findings[1].Target = 2
    /\ pOut.aborted = 0

(***************************************************************************)
(* The paused flag during a rate-limit sleep.                              *)
(***************************************************************************)
\* C19 as stated: for as long as a worker is inside its rate-limit sleep the
\* paused flag is set, so that a worker entering rateLimitCheck during the
\* sleep stays in the wait on the flag and issues nothing until the sleep
\* has ended.
C19_FlagSetThroughoutSleep ==
    \A w \in Workers : wpc[w] = "rl_sleep" => rlPaused # 0

\* With one worker the flag is held through every sleep.
C19_HoldsWithOneWorker == nworkers <= 1 => C19_FlagSetThroughoutSleep

(***************************************************************************)
(* Pauses of a single worker.                                              *)
(***************************************************************************)
\* Requests issued so far in the batch.
IssuedCount == SumUpTo(issued, Len(valid))

\* The only worker of the pool has triggered a pause and not yet ended it.
SoleWorkerPausing ==
    /\ engine = "http"
    /\ nworkers = 1
    /\ wpc[1] \in {"rl_set", "rl_sleep"}

\* C20 as stated: with a single worker and threshold T the j-th pause is
\* triggered after the (j*T)-th request has been issued (and before the
\* next): when the worker pauses on count j*T, j*T requests have gone out.
C20_PauseAfterRequestIssued ==
    SoleWorkerPausing =>
        /\ rlCount % rlThreshold = 0
        /\ IssuedCount = rlCount

\* What the code does: the pause on count j*T comes before the (j*T)-th
\* request goes out.
C20_PauseBeforeRequestIssued ==
    SoleWorkerPausing =>
        /\ rlCount % rlThreshold = 0
        /\ IssuedCount = rlCount - 1

(***************************************************************************)
(* Calls of rateLimitCheck.                                                *)
(***************************************************************************)
\* Workers that rateLimitCheck has counted and whose request has not gone
\* out yet.
Admitted == { w \in Workers : wpc[w] \in {"rl_set", "rl_sleep", "get"} }

\* C21: rateLimitCheck runs once for each HTTP request a worker dispatches,
\* right before the request, and never for a DNS lookup or for a job drained
\* after abort: with a threshold configured the request counter has grown by
\* the requests issued plus the workers counted and about to issue; a DNS
\* batch leaves the counter alone and no DNS worker is inside rateLimitCheck.
C21_CounterGrowsByRequestsIssued ==
    /\ (engine = "http" /\ rlThreshold > 0) =>
           rlCount = IssuedCount + Cardinality(Admitted)
    /\ engine = "dns" =>
           /\ rlCount = 0
           /\ \A w \in Workers : ~InRateLimitCheck(w)

\* An aborted batch has returned with jobs drained and with requests issued.
C21_Witness ==
    /\ engine = "http"
    /\ rlThreshold > 0
    /\ phase = "returned"
    /\ aborted # 0
    /\ done = total
    /\ IssuedCount >= 2
    /\ IssuedCount < total
    /\ rlCount = IssuedCount

\* A DNS batch has looked up all its names.
C21_DnsWitness ==
    /\ engine = "dns"
    /\ phase = "returned"
    /\ total = MaxNames
    /\ done = total
    /\ rlCount = 0

(***************************************************************************)
(* dnsLookup.                                                              *)
(***************************************************************************)
DnsLookupDone == engine = "dnsLookup" /\ pOut # << >>

\* The outcome a returned string stands for.
OutcomeOf(str, name) ==
    IF str = name THEN "resolved"
    ELSE IF str = BreakoutSentinel THEN "fatal"
    ELSE IF str = EmptyStr THEN "not-found"
    ELSE "other"

\* The outcome the claim gives to a single answer of the resolver.
OutcomeOfAnswer(a) ==
    IF a = "ok" THEN "resolved"
    ELSE IF a = "notfound" THEN "not-found"
    ELSE IF a = "dnserr" THEN "fatal"
    ELSE "none"

\* C22: dnsLookup makes one lookup attempt, and a second one exactly when the
\* first timed out; two timeouts give not-found, a retry that resolves, is
\* not-found or is fatal gives that outcome, and a first attempt that
\* resolves or is not-found decides the outcome without a retry.
C22_RetryOnlyOnTimeout ==
    DnsLookupDone =>
        LET r == pIn.res
            outcome == OutcomeOf(pOut.result, Name(pIn.name))
        IN  /\ pOut.tries \in 1..2
            /\ (pOut.tries = 2) <=> (r[1] = "timeout")
            /\ r[1] \in {"ok", "notfound"} =>
                   /\ pOut.tries = 1
                   /\ outcome = OutcomeOfAnswer(r[1])
            /\ (r[1] = "timeout" /\ r[2] = "timeout") => outcome = "not-found"
            /\ (r[1] = "timeout" /\ r[2] \in {"ok", "notfound", "dnserr"}) =>
                   outcome = OutcomeOfAnswer(r[2])

\* A lookup whose first attempt timed out has resolved on the retry.
C22_Witness ==
    /\ DnsLookupDone
    /\ pIn.res = << "timeout", "ok" >>
    /\ pOut.tries = 2
    /\ pOut.result = Name(pIn.name)

\* The answer of the resolver on the last attempt made.
LastAnswer == pIn.res[pOut.tries]

\* C23 as stated: a lookup ended by an error that is neither a not-found nor
\* a timeout has the fatal outcome, whatever kind of error value it is.
C23_EveryOtherErrorIsFatal ==
    DnsLookupDone =>
        (LastAnswer \in {"dnserr", "othererr"} =>
            OutcomeOf(pOut.result, Name(pIn.name)) = "fatal")

\* C23 amended: a DNSError that is neither a not-found nor a timeout is
\* fatal; an error that is not a DNSError gives not-found.
C23_OtherDnsErrorIsFatal ==
    DnsLookupDone =>
        /\ LastAnswer = "dnserr" =>
               OutcomeOf(pOut.result, Name(pIn.name)) = "fatal"
        /\ LastAnswer = "othererr" =>
               OutcomeOf(pOut.result, Name(pIn.name)) = "not-found"

\* A retry has ended in a DNSError that is neither not-found nor timeout.
C23_Witness ==
    /\ DnsLookupDone
    /\ pIn.res = << "timeout", "dnserr" >>
    /\ pOut.tries = 2
    /\ pOut.result = BreakoutSentinel

(***************************************************************************)
(* Abort of a GetURLBatch call.                                            *)
(***************************************************************************)
ClassifiedCount == SumUpTo(classified, Len(valid))

\* C24: the store of the abort flag leaves the workers and the requests in
\* flight as they are, and the flag is never cleared; a worker that looks at
\* its job with the flag set counts it as done and takes the next one with
\* no rate-limit check and no request; when the call returns no request is
\* in flight, every request issued has completed, and every one that
\* completed without transport error has been classified.
C24_AbortDrainsQueueOnly ==
    /\ [](engine = "http" /\ phase = "returned" =>
            /\ inflight = 0
            /\ \A i \in Targets :
                   /\ issued[i] >= 1 => httpOutcome[i] # "none"
                   /\ httpOutcome[i] = "ok" => classified[i] = 1)
    /\ [][engine = "http" =>
            /\ aborted # 0 => aborted' # 0
            /\ (aborted = 0 /\ aborted' # 0) =>
                   /\ wpc' = wpc
                   /\ inflight' = inflight
            /\ \A w \in Workers :
                   (wpc[w] = "chk" /\ aborted # 0 /\ wpc'[w] # "chk") =>
                       /\ wpc'[w] = "recv"
                       /\ done' = done + 1
                       /\ rlCount' = rlCount
                       /\ issued' = issued]_vars

\* An aborted batch has returned with jobs drained and more than one result
\* classified.
C24_Witness ==
    /\ engine = "http"
    /\ phase = "returned"
    /\ aborted # 0
    /\ nworkers >= 2
    /\ done = total
    /\ IssuedCount < total
    /\ ClassifiedCount >= 2

(***************************************************************************)
(* Transport failures in GetURLBatch.                                      *)
(***************************************************************************)
Failed == { i \in Targets : httpOutcome[i] = "err" }

\* Positions of the results channel that hold the result of target i.
QueuedFor(i) == { k \in 1..Len(resultsCh) : resultsCh[k] = i }

\* C25: a request that fails in transport gives no result (none is queued,
\* none is classified), is counted as done once (every failure is counted,
\* and the count ends at the total, one per job), and does not set the
\* abort flag, which only a true verdict of the classifier does; the worker
\* goes on, so a batch whose classifier never returns true has dispatched
\* every valid target when it returns.
C25_TransportFailureOnlySkipsTarget ==
    engine = "http" =>
        /\ \A i \in Failed :
               /\ classified[i] = 0
               /\ QueuedFor(i) = {}
               /\ \A w \in Workers : wjob[w] # i
        /\ aborted # 0 => cbTrue
        /\ Cardinality(Failed) <= done
        /\ done <= total
        /\ (phase = "returned" /\ Failed # {} /\ ~cbTrue) =>
               /\ done = total
               /\ \A i \in Targets : issued[i] = 1

\* A batch of the largest size whose first request failed has returned with
\* every target dispatched and the others classified.
C25_Witness ==
    /\ engine = "http"
    /\ phase = "returned"
    /\ total = MaxNames
    /\ httpOutcome[1] = "err"
    /\ Cardinality(Failed) = 1
    /\ aborted = 0
    /\ \A i \in Targets : issued[i] = 1
    /\ ClassifiedCount = total - 1

(***************************************************************************)
(* Backpressure of the two channels.                                       *)
(***************************************************************************)
\* Workers holding a result they have not been able to send yet.
BlockedOnSend ==
    { w \in Workers : wpc[w] = "send" /\ Len(resultsCh) >= ChanFactor * nworkers }

C26_ResultsFull ==
    /\ engine = "http"
    /\ nworkers = 1
    /\ Len(resultsCh) = ChanFactor * nworkers
    /\ BlockedOnSend # {}


(***************************************************************************)
(* A process that makes one GetURLBatch call after another, as             *)
(* checkFunctions does: one call for the candidates, then one call per     *)
(* project found.  rlCount, rlPaused and rlThreshold are package           *)
(* variables: nothing in GetURLBatch or in its callers assigns rlCount.    *)
(***************************************************************************)
MaxBatches == 2

\* The candidate lists of the calls: valid names only.
ProcessLists == { << 1 >>, << 1, 3 >> }

\* The per-call state of the next call, as the state before a first call.
FreshCall ==
    /\ phase' = "init"
    /\ valid' = << >>
    /\ total' = 0
    /\ nworkers' = 0
    /\ jobs' = << >>
    /\ jobsClosed' = FALSE
    /\ resultsCh' = << >>
    /\ resultsClosed' = FALSE
    /\ done' = 0
    /\ aborted' = 0
    /\ validNames' = << >>
    /\ wpc' = << >>
    /\ wjob' = << >>
    /\ wres' = << >>
    /\ fpc' = "none"
    /\ fidx' = 1
    /\ clpc' = "none"
    /\ tkpc' = "none"
    /\ tickerStopped' = FALSE
    /\ cpc' = "none"
    /\ cres' = << >>
    /\ inflight' = 0
    /\ issued' = << >>
    /\ httpOutcome' = << >>
    /\ classified' = << >>
    /\ cbTrue' = FALSE
    /\ lateIssued' = FALSE
    /\ postAbort' = << >>
    /\ dnsOutcome' = << >>
    /\ received' = << >>
    /\ cbCalls' = << >>

\* Variant: the caller zeroes the request counter before its next call.
NextBatch_ResetsCount ==
    /\ engine = "http"
    /\ phase = "returned"
    /\ batchNo < MaxBatches
    /\ batchNo' = batchNo + 1
    /\ issuedBefore' = issuedBefore + IssuedCount
    /\ urlList' \in ProcessLists
    /\ FreshCall
    /\ rlCount' = 0
    /\ UNCHANGED << engine, threads, hasCallback, resolverTable, rlThreshold,
                    rlPaused, pauses, pureVars >>

\* The caller's next GetURLBatch call, made when the previous one has
\* returned: a new list, the same thread count, the rate limiter untouched.
NextBatch ==
    /\ engine = "http"
    /\ phase = "returned"
    /\ batchNo < MaxBatches
    /\ batchNo' = batchNo + 1
    /\ issuedBefore' = issuedBefore + IssuedCount
    /\ urlList' \in ProcessLists
    /\ FreshCall
    /\ UNCHANGED << engine, threads, hasCallback, resolverTable, rlThreshold,
                    rlVars, pureVars >>

\* The process has a threshold configured or none, and one worker or more
\* per call.
InitProcess ==
    /\ engine = "http"
    /\ urlList \in ProcessLists
    /\ threads \in 1..MaxThreads
    /\ hasCallback = TRUE
    /\ rlThreshold \in 0..MaxThreshold
    /\ resolverTable = << >>
    /\ InitCall
    /\ NoPure

NextProcess == NextHttp \/ NextBatch

SpecProcess == InitProcess /\ [][NextProcess]_vars

\* C27: the request counter is shared by the batch calls of the process and
\* no call resets it: with a threshold configured it equals the requests
\* admitted since the process started, those of earlier calls included, and
\* the pauses taken or being entered are one per threshold multiple of that
\* count, so a pause in a later call counts the requests of earlier calls.
C27_CounterSpansBatches ==
    (engine = "http" /\ rlThreshold > 0) =>
        /\ rlCount = issuedBefore + IssuedCount + Cardinality(Admitted)
        /\ pauses + Cardinality({ w \in Workers : wpc[w] = "rl_set" })
               = rlCount \div rlThreshold

\* In the second call the first request admitted crosses the threshold
\* because of the requests of the first call.
C27_Witness ==
    /\ engine = "http"
    /\ rlThreshold = 2
    /\ batchNo = 2
    /\ issuedBefore = 1
    /\ IssuedCount = 0
    /\ \E w \in Workers : wpc[w] = "rl_sleep"
    /\ rlCount = 2

(***************************************************************************)
(* The classifiers printS3Response, printFunctionsResponse2 and            *)
(* printContainerResponse applied to one HttpResult each.  The result      *)
(* carries the status code, the reason phrase, the body and the URL.       *)
(***************************************************************************)
MsgAccountDisabled ==
    << "T", "h", "e", " ", "s", "p", "e", "c", "i", "f", "i", "e", "d", " ",
       "a", "c", "c", "o", "u", "n", "t", " ", "i", "s", " ", "d", "i", "s",
       "a", "b", "l", "e", "d" >>
MsgNotAuthorized ==
    << "n", "o", "t", " ", "a", "u", "t", "h", "o", "r", "i", "z", "e", "d",
       " ", "t", "o", " ", "p", "e", "r", "f", "o", "r", "m", " ", "t", "h",
       "i", "s", " ", "o", "p", "e", "r", "a", "t", "i", "o", "n" >>
MsgNoPermissions ==
    << "n", "o", "t", " ", "h", "a", "v", "e", " ", "s", "u", "f", "f", "i",
       "c", "i", "e", "n", "t", " ", "p", "e", "r", "m", "i", "s", "s", "i",
       "o", "n", "s" >>
MsgNoPublicAccess ==
    << "P", "u", "b", "l", "i", "c", " ", "a", "c", "c", "e", "s", "s", " ",
       "i", "s", " ", "n", "o", "t", " ", "p", "e", "r", "m", "i", "t", "t",
       "e", "d" >>
MsgAuthFailed ==
    << "S", "e", "r", "v", "e", "r", " ", "f", "a", "i", "l", "e", "d", " ",
       "t", "o", " ", "a", "u", "t", "h", "e", "n", "t", "i", "c", "a", "t",
       "e", " ", "t", "h", "e", " ", "r", "e", "q", "u", "e", "s", "t" >>
MsgNoBlobApi ==
    << "B", "l", "o", "b", " ", "A", "P", "I", " ", "i", "s", " ", "n", "o",
       "t", " ", "y", "e", "t", " ", "s", "u", "p", "p", "o", "r", "t", "e",
       "d" >>
MsgOutOfRange ==
    << "O", "n", "e", " ", "o", "f", " ", "t", "h", "e", " ", "r", "e", "q",
       "u", "e", "s", "t", " ", "i", "n", "p", "u", "t", "s", " ", "i", "s",
       " ", "o", "u", "t", " ", "o", "f", " ", "r", "a", "n", "g", "e" >>
MsgInvalidURI ==
    << "T", "h", "e", " ", "r", "e", "q", "u", "e", "s", "t", " ", "U", "R",
       "I", " ", "i", "s", " ", "i", "n", "v", "a", "l", "i", "d" >>
GoogleLogin ==
    << "a", "c", "c", "o", "u", "n", "t", "s", ".", "g", "o", "o", "g", "l",
       "e", ".", "c", "o", "m", "/", "S", "e", "r", "v", "i", "c", "e", "L",
       "o", "g", "i", "n" >>
FunctionURL ==
    << "f", ".", "x", "/", "a", "/" >>

\* FmtOutput(data) of a finding of a platform on target url.
Finding(platform, msg, url, access) ==
    [Platform |-> platform, Msg |-> msg, Target |-> url, Access |-> access]

NoFinding == [findings |-> << >>, abort |-> FALSE]
BreakOut == [findings |-> << >>, abort |-> TRUE]

\* printFunctionsResponse2: the cases of the switch in the order of the
\* source; it always returns false.
printFunctionsResponse2(result) ==
    IF Contains(result.URL, GoogleLogin)
    THEN NoFinding
    ELSE IF result.StatusCode = 403 \/ result.StatusCode = 401
    THEN [findings |-> << Finding("gcp", "Auth required Cloud Function",
                                  result.URL, "protected") >>,
          abort |-> FALSE]
    ELSE IF result.StatusCode = 405
    THEN [findings |->
              << Finding("gcp", "UNAUTHENTICATED Cloud Function (POST-Only)",
                         result.URL, "public") >>,
          abort |-> FALSE]
    ELSE IF result.StatusCode = 200 \/ result.StatusCode = 404
    THEN [findings |->
              << Finding("gcp", "UNAUTHENTICATED Cloud Function (GET-OK)",
                         result.URL, "public") >>,
          abort |-> FALSE]
    ELSE NoFinding

\* strings.Contains(reason, msg) || strings.Contains(body, msg)
InReasonOrBody(result, msg) ==
    Contains(result.Reason, msg) \/ Contains(result.Body, msg)

\* printContainerResponse: the three early break-outs, then the switch.
printContainerResponse(result) ==
    IF InReasonOrBody(result, MsgAccountDisabled)
    THEN BreakOut
    ELSE IF \/ InReasonOrBody(result, MsgNotAuthorized)
            \/ InReasonOrBody(result, MsgNoPermissions)
            \/ InReasonOrBody(result, MsgNoPublicAccess)
            \/ InReasonOrBody(result, MsgAuthFailed)
    THEN BreakOut
    ELSE IF InReasonOrBody(result, MsgNoBlobApi)
    THEN BreakOut
    ELSE IF result.StatusCode = 404
    THEN NoFinding
    ELSE IF result.StatusCode = 200
    THEN [findings |-> << Finding("azure", "OPEN AZURE CONTAINER",
                                  result.URL, "public") >>,
          abort |-> FALSE]
    ELSE IF InReasonOrBody(result, MsgOutOfRange)
    THEN NoFinding
    ELSE IF InReasonOrBody(result, MsgInvalidURI)
    THEN NoFinding
    ELSE NoFinding

Classifiers ==
    {"printS3Response", "printFunctionsResponse2", "printContainerResponse"}

\* The callback named c applied to result.
Classify(c, result) ==
    IF c = "printS3Response" THEN printS3Response(result)
    ELSE IF c = "printFunctionsResponse2" THEN printFunctionsResponse2(result)
    ELSE printContainerResponse(result)

ClassifyCodes == {200, 401, 403, 404, 405, 503}
ClassifyReasons ==
    {ReasonOK, ReasonNotFound, ReasonBadRequest, MsgAccountDisabled,
     MsgOutOfRange}
ClassifyBodies == {<< >>, MsgNoPublicAccess, MsgInvalidURI}
ClassifyURLs == {FunctionURL, GoogleLogin \o << "?" >>}

InitClassify ==
    /\ engine = "classify"
    /\ pIn \in [callback : Classifiers,
                result : [StatusCode : ClassifyCodes, Reason : ClassifyReasons,
                          Body : ClassifyBodies, URL : ClassifyURLs]]
    /\ pOut = << >>
    /\ NoBatch

ApplyClassifier ==
    /\ engine = "classify"
    /\ pOut = << >>
    /\ pOut' = Classify(pIn.callback, pIn.result)
    /\ UNCHANGED << cfgVars, procVars, tickerVars, rlVars, chanVars, callVars,
                    workerVars, feederVars, clpc, consumerVars, done, aborted,
                    validNames, httpHist, dnsHist, pIn >>

SpecClassify == InitClassify /\ [][ApplyClassifier]_vars

ClassifiedResult == engine = "classify" /\ pOut # << >>

\* C28: every provider classifier, given a result whose status code is 404,
\* emits no finding.
C28_NotFoundIsNeverAFinding ==
    (ClassifiedResult /\ pIn.result.StatusCode = 404) =>
        pOut.findings = << >>

\* The classifiers of S3 buckets and of Azure containers emit no finding on
\* a 404 result; the classifier of function names emits none when the URL is
\* the Google login page.
C28_NotFoundSkippedElsewhere ==
    (ClassifiedResult /\ pIn.result.StatusCode = 404) =>
        \/ pOut.findings = << >>
        \/ /\ pIn.callback = "printFunctionsResponse2"
           /\ ~Contains(pIn.result.URL, GoogleLogin)

\* printFunctionsResponse2 has reported a 404 response as a public function.
C28_FindingOn404 ==
    /\ ClassifiedResult
    /\ pIn.callback = "printFunctionsResponse2"
    /\ pIn.result.StatusCode = 404
    /\ pIn.result.Reason = ReasonNotFound
    /\ Len(pOut.findings) = 1
    /\ pOut.findings[1].Access = "public"
    /\ ~pOut.abort

(***************************************************************************)
(* The resolver FastDNSLookup chooses from its nameserver arguments.  A    *)
(* string is a sequence of characters; the nameserver file is absent or a  *)
(* sequence of lines.                                                      *)
(***************************************************************************)
CustomTimeout == 3
SystemTimeout == 5
MaxLines == 2

DefaultNS == << "1", ".", "1", ".", "1", ".", "1" >>
OtherNS == << "8", ".", "8", ".", "8", ".", "8" >>
ThirdNS == << "9", ".", "9", ".", "9", ".", "9" >>

\* Variant: any non-empty nameserver counts as custom.
useCustomNS_AnyNameserver(nameserver, nameserverFile) ==
    nameserverFile # << >> \/ nameserver # << >>

\* useCustomNS
useCustomNS(nameserver, nameserverFile) ==
    nameserverFile # << >> \/ (nameserver # << >> /\ nameserver # DefaultNS)

\* strings.TrimSpace on the lines of the model, whose only white space is
\* the blank.
RECURSIVE TrimLeft(_)
TrimLeft(line) ==
    IF line # << >> /\ Head(line) = " " THEN TrimLeft(Tail(line)) ELSE line

RECURSIVE TrimRight(_)
TrimRight(line) ==
    IF line # << >> /\ line[Len(line)] = " "
    THEN TrimRight(SubSeq(line, 1, Len(line) - 1))
    ELSE line

TrimSpace(line) == TrimRight(TrimLeft(line))

\* The scanning loop of ReadNameservers: the trimmed lines that are neither
\* empty nor comments.
RECURSIVE ScanLines(_)
ScanLines(lines) ==
    IF lines = << >> THEN << >>
    ELSE LET line == TrimSpace(Head(lines))
         IN  IF line # << >> /\ Head(line) # "#"
             THEN << line >> \o ScanLines(Tail(lines))
             ELSE ScanLines(Tail(lines))

\* ReadNameservers on a file that cannot be opened or has the given lines:
\* the process exits on the former and on a file without a nameserver.
ReadNameservers(file) ==
    IF ~file.exists THEN [exit |-> TRUE, ns |-> << >>]
    ELSE IF ScanLines(file.lines) = << >> THEN [exit |-> TRUE, ns |-> << >>]
    ELSE [exit |-> FALSE, ns |-> ScanLines(file.lines)]

\* The resolver selection of FastDNSLookup: which resolver, over which
\* nameservers, with which lookup timeout in seconds.
SelectResolver(nameserver, nameserverFile, file) ==
    IF useCustomNS(nameserver, nameserverFile)
    THEN LET read == IF nameserverFile # << >>
                     THEN ReadNameservers(file)
                     ELSE [exit |-> FALSE, ns |-> << nameserver >>]
         IN  IF read.exit
             THEN [resolver |-> "exit", nsList |-> << >>, lookupTimeout |-> 0]
             ELSE [resolver |-> "custom", nsList |-> read.ns,
                   lookupTimeout |-> CustomTimeout]
    ELSE [resolver |-> "system", nsList |-> << >>,
          lookupTimeout |-> SystemTimeout]

FileNames == {<< >>, << "n", "s" >>}
FileLines ==
    {<< >>, << "#", "c" >>, << " " >>, OtherNS, << " " >> \o ThirdNS \o << " " >>}
Files ==
    {[exists |-> FALSE, lines |-> << >>]} \cup
    {[exists |-> TRUE, lines |-> l] :
        l \in UNION { [1..n -> FileLines] : n \in 0..MaxLines }}

InitSelectResolver ==
    /\ engine = "SelectResolver"
    /\ pIn \in [nameserver : {<< >>, DefaultNS, OtherNS},
                nameserverFile : FileNames, file : Files]
    /\ pOut = << >>
    /\ NoBatch

ApplySelectResolver ==
    /\ engine = "SelectResolver"
    /\ pOut = << >>
    /\ pOut' = SelectResolver(pIn.nameserver, pIn.nameserverFile, pIn.file)
    /\ UNCHANGED << cfgVars, procVars, tickerVars, rlVars, chanVars, callVars,
                    workerVars, feederVars, clpc, consumerVars, done, aborted,
                    validNames, httpHist, dnsHist, pIn >>

SpecSelectResolver == InitSelectResolver /\ [][ApplySelectResolver]_vars

ResolverSelected == engine = "SelectResolver" /\ pOut # << >>

\* The custom resolver with the 3-second timeout, or the exit of the process
\* on a nameserver file that cannot be used.
CustomOrExit ==
    \/ pOut.resolver = "exit" /\ pIn.nameserverFile # << >>
    \/ /\ pOut.resolver = "custom"
       /\ pOut.lookupTimeout = CustomTimeout
       /\ pOut.nsList # << >>

SystemResolver ==
    pOut.resolver = "system" /\ pOut.lookupTimeout = SystemTimeout

\* With a nameserver file the nameservers are those of the file, whatever
\* the single nameserver is.
FileTakesPrecedence ==
    (pIn.nameserverFile # << >> /\ pOut.resolver = "custom") =>
        /\ pIn.file.exists
        /\ pOut.nsList = ScanLines(pIn.file.lines)

\* C29 as stated: the custom resolver with a 3-second timeout whenever a
\* nameserver or a nameserver file is supplied, else the system resolver
\* with a 5-second timeout; the file takes precedence.
C29_CustomWheneverSupplied ==
    ResolverSelected =>
        /\ IF pIn.nameserverFile # << >> \/ pIn.nameserver # << >>
           THEN CustomOrExit
           ELSE SystemResolver
        /\ FileTakesPrecedence

\* C29 amended: the custom resolver whenever a nameserver file or a
\* nameserver other than 1.1.1.1 is supplied, else the system resolver.
C29_CustomWhenNotDefault ==
    ResolverSelected =>
        /\ IF \/ pIn.nameserverFile # << >>
              \/ pIn.nameserver \notin {<< >>, DefaultNS}
           THEN CustomOrExit
           ELSE SystemResolver
        /\ pOut.resolver = "custom" /\ pIn.nameserverFile = << >> =>
               pOut.nsList = << pIn.nameserver >>
        /\ FileTakesPrecedence

\* The nameserver 1.1.1.1 without a file has given the system resolver, and
\* so a file has won over a custom nameserver.
C29_Witness ==
    /\ ResolverSelected
    /\ pIn.nameserver = DefaultNS
    /\ pIn.nameserverFile = << >>
    /\ pOut.resolver = "system"
    /\ pOut.lookupTimeout = SystemTimeout

C29_FileWitness ==
    /\ ResolverSelected
    /\ pIn.nameserver = OtherNS
    /\ pIn.nameserverFile # << >>
    /\ pOut = [resolver |-> "custom", nsList |-> << ThirdNS, OtherNS >>,
               lookupTimeout |-> CustomTimeout]

(***************************************************************************)
(* The resolver built by newResolver.  Its Dial function is called by the  *)
(* goroutines that look names up, concurrently: each call takes the next   *)
(* value of idx with one atomic add and then dials the nameserver at that  *)
(* index modulo the number of nameservers.  pOut holds idx, the position   *)
(* and the index i of every caller, and the dials made in the order of     *)
(* their DialContext calls.                                                *)
(***************************************************************************)
MaxNameservers == 2
MaxDialers == 2
MaxDials == 3

NameserverLists ==
    UNION { [1..n -> {OtherNS, ThirdNS}] : n \in 1..MaxNameservers }

\* ReadNameservers returns one nameserver or more, and so does the list of
\* the single nameserver.
InitNewResolver ==
    /\ engine = "newResolver"
    /\ pIn \in [nameservers : NameserverLists, dialers : 1..MaxDialers]
    /\ pOut = [idx |-> 0,
               pc |-> [w \in 1..pIn.dialers |-> "idle"],
               i |-> [w \in 1..pIn.dialers |-> 0],
               dialed |-> << >>]
    /\ NoBatch

\* nameservers[i%uint64(len(nameservers))], the list counted from 1.
NameserverAt(nameservers, i) == (i % Len(nameservers)) + 1

\* Variant: idx is a variable of the call, so every call starts from 0.
DialAdd_FreshIndex(w) ==
    /\ engine = "newResolver"
    /\ pOut.pc[w] = "idle"
    /\ pOut.idx < MaxDials
    /\ pOut' = [pOut EXCEPT !.idx = @ + 1, !.i[w] = 0, !.pc[w] = "dial"]
    /\ UNCHANGED << cfgVars, procVars, tickerVars, rlVars, chanVars, callVars,
                    workerVars, feederVars, clpc, consumerVars, done, aborted,
                    validNames, httpHist, dnsHist, pIn >>

\* i := atomic.AddUint64(&idx, 1) - 1, by caller w.
DialAdd(w) ==
    /\ engine = "newResolver"
    /\ pOut.pc[w] = "idle"
    /\ pOut.idx < MaxDials
    /\ pOut' = [pOut EXCEPT !.idx = @ + 1, !.i[w] = pOut.idx,
                            !.pc[w] = "dial"]
    /\ UNCHANGED << cfgVars, procVars, tickerVars, rlVars, chanVars, callVars,
                    workerVars, feederVars, clpc, consumerVars, done, aborted,
                    validNames, httpHist, dnsHist, pIn >>

\* d.DialContext(ctx, "udp", ns+":53") with ns the nameserver at index i.
DialContext(w) ==
    /\ engine = "newResolver"
    /\ pOut.pc[w] = "dial"
    /\ LET at == NameserverAt(pIn.nameservers, pOut.i[w])
       IN  pOut' = [pOut EXCEPT
                       !.dialed = Append(@, [i |-> pOut.i[w], at |-> at,
                                             ns |-> pIn.nameservers[at]]),
                       !.pc[w] = "idle"]
    /\ UNCHANGED << cfgVars, procVars, tickerVars, rlVars, chanVars, callVars,
                    workerVars, feederVars, clpc, consumerVars, done, aborted,
                    validNames, httpHist, dnsHist, pIn >>

NextNewResolver ==
    \/ \E w \in 1..MaxDialers : w <= pIn.dialers /\ DialAdd(w)
    \/ \E w \in 1..MaxDialers : w <= pIn.dialers /\ DialContext(w)

SpecNewResolver == InitNewResolver /\ [][NextNewResolver]_vars

\* The callers that hold an index and have not dialed yet.
Dialing == { w \in 1..pIn.dialers : pOut.pc[w] = "dial" }

\* The dials made with index i.
DialsOf(i) == { k \in 1..Len(pOut.dialed) : pOut.dialed[k].i = i }

\* The indices k..k+n-1 have all been dialed.
WindowDialed(k, n) == \A i \in k..(k + n - 1) : DialsOf(i) # {}

\* C30: the nameservers are used round-robin per query, also when the
\* queries are concurrent: the queries get the indices 0, 1, 2, ... one
\* each, the query with index i goes to nameserver i mod n, and over n
\* consecutive queries every nameserver of the list is used exactly once.
C30_RoundRobinPerQuery ==
    engine = "newResolver" =>
        LET n == Len(pIn.nameservers)
        IN  /\ \A i \in 0..(pOut.idx - 1) :
                   Cardinality(DialsOf(i))
                       + Cardinality({ w \in Dialing : pOut.i[w] = i }) = 1
            /\ \A k \in 1..Len(pOut.dialed) :
                   /\ pOut.dialed[k].i < pOut.idx
                   /\ pOut.dialed[k].at = (pOut.dialed[k].i % n) + 1
                   /\ pOut.dialed[k].ns = pIn.nameservers[pOut.dialed[k].at]
            /\ \A k \in 0..(pOut.idx - n) :
                   WindowDialed(k, n) =>
                       \A at \in 1..n :
                           Cardinality({ d \in 1..Len(pOut.dialed) :
                               /\ pOut.dialed[d].i \in k..(k + n - 1)
                               /\ pOut.dialed[d].at = at }) = 1

\* Two callers have dialed out of order, the query with index 1 before the
\* query with index 0, each to its own nameserver, and a third query has
\* gone back to the first nameserver.
C30_Witness ==
    /\ engine = "newResolver"
    /\ pIn.nameservers = << OtherNS, ThirdNS >>
    /\ pIn.dialers = 2
    /\ Len(pOut.dialed) = 3
    /\ pOut.dialed[1] = [i |-> 1, at |-> 2, ns |-> ThirdNS]
    /\ pOut.dialed[2] = [i |-> 0, at |-> 1, ns |-> OtherNS]
    /\ pOut.dialed[3] = [i |-> 2, at |-> 1, ns |-> OtherNS]

(***************************************************************************)
(* The completed count of a GetURLBatch call.                              *)
(***************************************************************************)
\* Workers that have taken a job and not yet counted it.
HoldingJob == { w \in Workers : wpc[w] \notin {"recv", "exit"} }

\* Jobs the feeder has put on the job queue.
Enqueued == fidx - 1

\* Every job taken is counted once it is dealt with: the jobs enqueued are
\* those still queued, those a worker holds and those counted.
EachJobCountedOnce ==
    Enqueued = Len(jobs) + Cardinality(HoldingJob) + done

\* C31: each job taken from the queue is counted exactly once, the count
\* never exceeds total, and when the batch returns it equals the number of
\* jobs the feeder enqueued, which is total when no abort occurred.
C31_DoneCountsEachJobOnce ==
    (engine = "http" /\ phase \in {"running", "returned"}) =>
        /\ EachJobCountedOnce
        /\ done <= total
        /\ phase = "returned" =>
               /\ done = Enqueued
               /\ aborted = 0 => done = total

\* The same for calls with one worker or more.
C31_HoldsWithWorkers ==
    threads >= 1 => C31_DoneCountsEachJobOnce

\* The count goes up by one at a time, when a worker is done with a job, and
\* never down; a tick of the reporter changes nothing, and the reporter's
\* position is in the guard of no step of feeder, workers or consumer.
C31_CountNeverDecreases ==
    [][engine = "http" /\ phase \in {"running", "returned"} =>
           /\ done' \in {done, done + 1}
           /\ done' = done + 1 =>
                  \E w \in Workers : wpc[w] \in {"chk", "get", "inflight", "send"} /\ wpc'[w] = "recv"
           /\ tkpc' = tkpc]_vars

\* A call without workers has returned with nothing counted and no abort.
C31_NothingCounted ==
    /\ engine = "http"
    /\ phase = "returned"
    /\ threads = 0
    /\ aborted = 0
    /\ total >= 1
    /\ done = 0

(***************************************************************************)
(* Who calls the callback of a batch call.                                 *)
(***************************************************************************)
\* A step in which the callback is called on a result.
CallbackCalled == classified' # classified \/ cbCalls' # cbCalls

\* A step of the consuming loop alone: no worker, feeder or closer moves
\* and nothing is sent.
ConsumerStepOnly ==
    /\ cpc \in {"range", "cb", "store"}
    /\ wpc' = wpc
    /\ wjob' = wjob
    /\ done' = done
    /\ jobs' = jobs
    /\ fpc' = fpc
    /\ clpc' = clpc

\* The steps that call the callback or set the abort flag.
CallbackInConsumingLoop ==
    (engine \in {"http", "dns"} /\ phase = "running") =>
           /\ CallbackCalled =>
                  /\ ConsumerStepOnly
                  /\ engine = "http" =>
                         /\ cpc = "range"
                         /\ resultsCh # << >>
                         /\ resultsCh' = Tail(resultsCh)
                         /\ classified' =
                                [classified EXCEPT ![Head(resultsCh)] = @ + 1]
                  /\ engine = "dns" =>
                         /\ cpc = "cb"
                         /\ cpc' = "append"
                         /\ cbCalls' = [cbCalls EXCEPT ![cres[1]] = @ + 1]
           /\ aborted' # aborted =>
                  /\ ConsumerStepOnly
                  /\ cpc = "store"
                  /\ cbTrue
                  /\ aborted = 0
                  /\ aborted' = 1

\* C32: within a batch call the callback is called by the consuming loop
\* only, one call at a time: a step that calls it is a step of that loop,
\* taken from the head of the loop (HTTP, on the result just received) or
\* from its callback position (DNS), and only a step of that loop sets the
\* abort flag, after a true verdict.
C32_CallbackOnlyInConsumingLoop == [][CallbackInConsumingLoop]_vars

\* The consuming loop of GetURLBatch has classified two results and set the
\* abort flag while a worker holds a job.
C32_Witness ==
    /\ engine = "http"
    /\ phase = "running"
    /\ ClassifiedCount >= 2
    /\ aborted = 1
    /\ \E w \in Workers : wpc[w] \in {"chk", "inflight", "send"}

\* The consuming loop of FastDNSLookup is inside the callback while a worker
\* has a result to send.
C32_DnsWitness ==
    /\ engine = "dns"
    /\ phase = "running"
    /\ cpc = "cb"
    /\ \E w \in Workers : wpc[w] = "send"

(***************************************************************************)
(* The closing of the two queues of a batch call.                          *)
(***************************************************************************)
\* The queues as the goroutines have left them: jobs is closed when the
\* feeder has ended and not before, resultsCh when the closer has ended and
\* not before, and then every worker has left its loop.
QueuesClosedByTheirOwners ==
    /\ jobsClosed <=> fpc = "done"
    /\ resultsClosed <=> clpc = "done"
    /\ resultsClosed => WorkersExited
    /\ phase = "returned" => jobsClosed /\ resultsClosed

\* The steps on the queues: a send goes to an open queue, a close is made on
\* an open queue, by the feeder as its last step (jobs) and by the closer
\* as its last step once the workers have exited (resultsCh), and a closed
\* queue stays closed.
QueueStep ==
    /\ Len(jobs') > Len(jobs) => ~jobsClosed /\ ~jobsClosed'
    /\ Len(resultsCh') > Len(resultsCh) => ~resultsClosed /\ ~resultsClosed'
    /\ jobsClosed => jobsClosed' /\ fpc' = fpc /\ fidx' = fidx
    /\ resultsClosed => resultsClosed' /\ clpc' = clpc
    /\ (fpc # "done" /\ fpc' = "done") => ~jobsClosed /\ jobsClosed'
    /\ (clpc # "done" /\ clpc' = "done") =>
           /\ ~resultsClosed
           /\ resultsClosed'
           /\ WorkersExited

\* C33: in both engines, with one worker or more, the job queue is closed
\* exactly once, by the feeder after its last send, and the result queue
\* exactly once, by the closer after every worker has exited; nothing is
\* sent on a closed queue and no queue is closed twice, abort or not.
C33_QueuesClosedOnce ==
    /\ []((engine \in {"http", "dns"} /\ nworkers >= 1) =>
              QueuesClosedByTheirOwners)
    /\ [][(engine \in {"http", "dns"} /\ nworkers >= 1) => QueueStep]_vars

\* An aborted HTTP batch has returned with both queues closed and targets
\* left unsent.
C33_Witness ==
    /\ engine = "http"
    /\ phase = "returned"
    /\ nworkers >= 1
    /\ aborted # 0
    /\ fidx <= Len(valid)
    /\ jobsClosed
    /\ resultsClosed
    /\ jobs = << >>

\* A DNS batch has returned with both queues closed after its last send.
C33_DnsWitness ==
    /\ engine = "dns"
    /\ phase = "returned"
    /\ nworkers >= 2
    /\ fidx = Len(valid) + 1
    /\ jobsClosed
    /\ resultsClosed

(***************************************************************************)
(* The feeder of GetURLBatch after an abort.                               *)
(***************************************************************************)
\* The feeder's steps once the abort flag is set: it enqueues only the
\* target whose send it had already reached, is back at the head of its
\* loop after that, and from the head of its loop it only closes the job
\* queue.
FeederStepAfterAbort ==
    (engine = "http" /\ aborted # 0) =>
        /\ fidx' # fidx =>
               /\ fpc = "send"
               /\ fpc' = "loop"
               /\ fidx' = fidx + 1
               /\ jobs' = Append(jobs, fidx)
        /\ (fpc = "loop" /\ fpc' # "loop") =>
               /\ fpc' = "done"
               /\ jobsClosed'
               /\ fidx' = fidx

\* C34: after the abort flag is set the feeder enqueues at most one further
\* target, the one whose send it had reached, and then closes the job
\* queue; every target it enqueued is taken by a worker before the batch
\* returns, so the job queue is empty at return.
C34_FeederStopsAfterAbort ==
    /\ [][FeederStepAfterAbort]_vars
    /\ (engine = "http" /\ aborted # 0) ~> jobsClosed
    /\ [](engine = "http" /\ phase = "returned" =>
              /\ jobs = << >>
              /\ Cardinality(HoldingJob) = 0
              /\ done = Enqueued)

\* The feeder has enqueued the target it was sending when the flag was set,
\* has closed the queue with targets left, and the batch has returned.
C34_Witness ==
    /\ engine = "http"
    /\ phase = "returned"
    /\ aborted # 0
    /\ jobsClosed
    /\ fpc = "done"
    /\ Enqueued = 2
    /\ Len(valid) = 3
    /\ ClassifiedCount = 1
    /\ done = 2
====
